---- MODULE Spec2Model ----
(***************************************************************************)
(* Generalized suffix tree (Ukkonen's online construction), pattern search *)
(* and longest common substring, as implemented in src/src/lib.rs and      *)
(* src/src/alphabet.rs.                                                    *)
(*                                                                         *)
(* Conventions.  NodeId and SequenceId are 0-based as in the source; the   *)
(* arena `nodes` and the list `sequences` are TLA+ sequences, so node n is *)
(* nodes[n + 1] and sequence i is sequences[i + 1].  Option<NodeId> is an  *)
(* integer with None == -1; Option<(Symbol, usize)> and Option<u128> are   *)
(* tuples of length 0 (None) or of the payload's length (Some).  A u128    *)
(* bitset is the set of its set bit positions.  A Rust panic is recorded   *)
(* in the field `panic` ("" when the call returned normally).              *)
(***************************************************************************)
EXTENDS Integers, Sequences, FiniteSets, TLC

\* ---------------------------------------------------------------- bounds
\* Largest total stream length (payload bytes plus one terminal per
\* sequence) the explored builders are fed in Spec.
MaxStream == 6
\* Longest pattern handed to contains / find.
MaxPat == 3
\* Longest payload or pattern that holds a byte outside the alphabet.
MaxForeign == 1
\* SpecCap feeds non-empty payloads to the last MaxCapRoom sequences below
\* the capacity, each of at most MaxCapRoom bytes.
MaxCapRoom == 2
\* Longest symbol list handed to Alphabet::new in SpecAlphabet.
MaxAlphabet == 3

\* ------------------------------------------------------- program constants
\* assert!(seq_id < 128, ...) in SuffixTree::add_sequence.
MaxSequences == 128
\* ranks: [Option<u8>; 255] in Alphabet.
RanksLen == 255

None == -1

\* Bytes: 'G' (71) and 'T' (84) belong to both alphabets below, '0' (48)
\* to neither.
KnownBytes == {71, 84}
Bytes == KnownBytes \cup {48}

\* -------------------------------------------------------------- Symbol
Terminal(seq_id) == <<"Terminal", seq_id>>
Regular(byte) == <<"Regular", byte>>
IsRegular(symbol) == symbol[1] = "Regular"

\* -------------------------------------------------------------- Alphabet
\* Alphabet::new: size is symbols.len() as u8; ranks[symbol] = Some(i) for
\* the i-th symbol.  The ranks array is a function of `symbols` and is
\* never written after construction, so it is read through AlphabetRank.
Alphabet_new(symbols) == [size |-> Len(symbols) % 256, symbols |-> symbols]

\* ranks[symbol]: None when no entry was written.
AlphabetRank(alphabet, byte) ==
    IF \E i \in 1..Len(alphabet.symbols) : alphabet.symbols[i] = byte
    THEN ((CHOOSE i \in 1..Len(alphabet.symbols) :
              /\ alphabet.symbols[i] = byte
              /\ \A j \in (i+1)..Len(alphabet.symbols) : alphabet.symbols[j] # byte) - 1) % 256
    ELSE None

\* rank_of_symbol panics when the index is outside the array or the entry
\* is None (unwrap).
RankPanics(alphabet, byte) == byte >= RanksLen \/ AlphabetRank(alphabet, byte) = None

rank_of_symbol(alphabet, byte) == AlphabetRank(alphabet, byte)

\* The panic of Alphabet::new(symbols), "" when it returns: the loop stops
\* at the first symbol whose index is outside `ranks` or whose entry is
\* already written, whichever the loop meets first.
RECURSIVE AlphabetNewPanic(_, _)
AlphabetNewPanic(symbols, i) ==
    IF i > Len(symbols) THEN ""
    ELSE IF symbols[i] >= RanksLen THEN "index out of bounds"
    ELSE IF \E j \in 1..(i - 1) : symbols[j] = symbols[i]
    THEN "symbol appears twice in alphabet"
    ELSE AlphabetNewPanic(symbols, i + 1)

\* symbol_of_rank: symbols[rank], an out-of-bounds panic beyond the slice.
SymbolOfRankPanics(alphabet, rank) == rank >= Len(alphabet.symbols)
symbol_of_rank(alphabet, rank) == alphabet.symbols[rank + 1]

\* lazy_static ASCII: b"abcdefghijklmnopqrstuvwxyzABCDEFGHIJKLMNOPQRSTUVWXYZ"
ASCII == Alphabet_new([i \in 1..52 |-> IF i <= 26 THEN 96 + i ELSE 38 + i])
\* Alphabet::new(b"ATGC") of the integration test.
ATGC == Alphabet_new(<<65, 84, 71, 67>>)

\* -------------------------------------------------------------- Sequence
Sequence_new(id, data) == [id |-> id, data |-> data]
Sequence_len(sequence) == Len(sequence.data) + 1
\* Sequence::at; an index beyond data.len() is an out-of-bounds panic.
AtPanics(sequence, index) == index < 0 \/ index > Len(sequence.data)
Sequence_at(sequence, index) ==
    IF index = Len(sequence.data)
    THEN Terminal(sequence.id)
    ELSE Regular(sequence.data[index + 1])

\* -------------------------------------------------------------- ChildMap
EmptyMap == <<>>
NoChildren == [terminals |-> EmptyMap, regular |-> <<>>]
\* smallvec![None; alphabet_size]
RECURSIVE Nones(_)
Nones(n) ==
    IF n = 0 THEN <<>>
    ELSE IF n = 1 THEN <<None>>
    ELSE Nones(n \div 2) \o Nones(n - (n \div 2))

ChildMap_new(alphabet_size) ==
    [terminals |-> EmptyMap, regular |-> Nones(alphabet_size)]

\* add_child as it would be if every regular child went to the first slot.
ChildMap_add_child_first_slot(children, alphabet, symbol, child) ==
    IF IsRegular(symbol)
    THEN [children EXCEPT !.regular[1] = child]
    ELSE [children EXCEPT !.terminals = (symbol[2] :> child) @@ @]

ChildMap_add_child(children, alphabet, symbol, child) ==
    IF IsRegular(symbol)
    THEN [children EXCEPT !.regular[rank_of_symbol(alphabet, symbol[2]) + 1] = child]
    ELSE [children EXCEPT !.terminals = (symbol[2] :> child) @@ @]

ChildMap_get_child(children, alphabet, symbol) ==
    IF IsRegular(symbol)
    THEN children.regular[rank_of_symbol(alphabet, symbol[2]) + 1]
    ELSE IF symbol[2] \in DOMAIN children.terminals
         THEN children.terminals[symbol[2]]
         ELSE None

\* ChildMap::iter: the terminals' values in the hash map's order, then the
\* regular children by rank.  HashMap iteration order is unspecified;
\* `order` (a sequence of sequence ids) stands for the order of one run.
\* terminals.values(), from the k-th key of `order` on.
RECURSIVE TerminalValues(_, _, _)
TerminalValues(terminals, order, k) ==
    IF k > Len(order) THEN <<>>
    ELSE IF order[k] \in DOMAIN terminals
    THEN <<terminals[order[k]]>> \o TerminalValues(terminals, order, k + 1)
    ELSE TerminalValues(terminals, order, k + 1)

\* regular.iter().filter_map(|&v| v), from the k-th entry on.
RECURSIVE RegularValues(_, _)
RegularValues(regular, k) ==
    IF k > Len(regular) THEN <<>>
    ELSE IF regular[k] # None
    THEN <<regular[k]>> \o RegularValues(regular, k + 1)
    ELSE RegularValues(regular, k + 1)

\* ChildMap::iter as it would be without the chain over the terminals.
ChildMap_iter_regular_only(children, order) == RegularValues(children.regular, 1)

ChildMap_iter(children, order) ==
    TerminalValues(children.terminals, order, 1) \o RegularValues(children.regular, 1)

\* -------------------------------------------------------------- Node
Node_new_root(alphabet_size) ==
    [kind |-> "Root", seq_id |-> 0, start |-> 0, end |-> 0,
     children |-> ChildMap_new(alphabet_size),
     suffix_link |-> None, sequence_id_set |-> <<>>]

Node_new_internal(alphabet_size, seq_id, start, end) ==
    [kind |-> "Internal", seq_id |-> seq_id, start |-> start, end |-> end,
     children |-> ChildMap_new(alphabet_size),
     suffix_link |-> None, sequence_id_set |-> <<>>]

Node_new_leaf(seq_id, start) ==
    [kind |-> "Leaf", seq_id |-> seq_id, start |-> start, end |-> 0,
     children |-> NoChildren,
     suffix_link |-> None, sequence_id_set |-> <<>>]

Node_is_leaf(node) == node.kind = "Leaf"

\* ------------------------------------------------------------ SuffixTree
\* The builder and the tree it owns as one record b:
\*   alphabet, sequences, nodes                      (SuffixTree)
\*   active_node, active_edge, position, remaining,
\*   previously_created_node                         (SuffixTreeBuilder)
\*   panic                                           ("" or the panic's cause)
N(b, node_id) == b.nodes[node_id + 1]
SeqOf(b, seq_id) == b.sequences[seq_id + 1]
current_sequence(b) == b.sequences[Len(b.sequences)]

Panic(b, why) == IF b.panic = "" THEN [b EXCEPT !.panic = why] ELSE b

\* SuffixTree::new and SuffixTreeBuilder::new.
SuffixTreeBuilder_new(alphabet) ==
    [alphabet |-> alphabet,
     sequences |-> <<>>,
     nodes |-> <<Node_new_root(alphabet.size)>>,
     active_node |-> 0,
     active_edge |-> <<>>,
     position |-> 0,
     remaining |-> 0,
     previously_created_node |-> None,
     panic |-> ""]

\* Node::get_child: children().unwrap() fails on a leaf, rank_of_symbol on
\* a byte without rank.
GetChildPanics(b, parent, symbol) ==
    \/ Node_is_leaf(N(b, parent))
    \/ IsRegular(symbol) /\ RankPanics(b.alphabet, symbol[2])

get_child(b, parent, symbol) ==
    ChildMap_get_child(N(b, parent).children, b.alphabet, symbol)

add_child(b, parent, symbol, child) ==
    IF b.panic # "" THEN b
    ELSE IF GetChildPanics(b, parent, symbol) THEN Panic(b, "add_child")
    ELSE [b EXCEPT !.nodes[parent + 1].children =
             ChildMap_add_child(@, b.alphabet, symbol, child)]

\* The new node's id is the arena's length before the push.
add_node(b, node) == [b EXCEPT !.nodes = Append(@, node)]

\* set_suffix_link as it would be if every link led to the root.
set_suffix_link_to_root(b, link_to) ==
    IF b.panic # "" THEN b
    ELSE IF b.previously_created_node # None
    THEN IF N(b, b.previously_created_node).kind # "Internal"
         THEN Panic(b, "set_suffix_link")
         ELSE [b EXCEPT !.nodes[b.previously_created_node + 1].suffix_link = 0,
                        !.previously_created_node = None]
    ELSE b

\* SuffixTreeBuilder::set_suffix_link
set_suffix_link(b, link_to) ==
    IF b.panic # "" THEN b
    ELSE IF b.previously_created_node # None
    THEN IF N(b, b.previously_created_node).kind # "Internal"
         THEN Panic(b, "set_suffix_link")
         ELSE [b EXCEPT !.nodes[b.previously_created_node + 1].suffix_link = link_to,
                        !.previously_created_node = None]
    ELSE b

\* SuffixTreeBuilder::active_edge_node: both unwraps.
ActiveEdgeNodePanics(b) ==
    \/ Len(b.active_edge) = 0
    \/ GetChildPanics(b, b.active_node, b.active_edge[1])
    \/ get_child(b, b.active_node, b.active_edge[1]) = None

active_edge_node(b) == get_child(b, b.active_node, b.active_edge[1])

\* insert_leaf_node as it would be if the new leaf started one symbol late.
insert_leaf_node_late_start(b, next_symbol) ==
    IF GetChildPanics(b, b.active_node, next_symbol)
    THEN [b |-> Panic(b, "get_child"), ret |-> FALSE]
    ELSE IF get_child(b, b.active_node, next_symbol) = None
    THEN LET leaf_node_id == Len(b.nodes)
             b1 == add_node(b, Node_new_leaf(current_sequence(b).id, b.position + 1))
             b2 == add_child(b1, b.active_node, next_symbol, leaf_node_id)
         IN  [b |-> IF b.active_node # 0 THEN set_suffix_link(b2, b.active_node) ELSE b2,
              ret |-> TRUE]
    ELSE [b |-> b, ret |-> FALSE]

\* SuffixTreeBuilder::insert_leaf_node; the result is <<builder, returned bool>>.
insert_leaf_node(b, next_symbol) ==
    IF GetChildPanics(b, b.active_node, next_symbol)
    THEN [b |-> Panic(b, "get_child"), ret |-> FALSE]
    ELSE IF get_child(b, b.active_node, next_symbol) = None
    THEN LET leaf_node_id == Len(b.nodes)
             b1 == add_node(b, Node_new_leaf(current_sequence(b).id, b.position))
             b2 == add_child(b1, b.active_node, next_symbol, leaf_node_id)
         IN  [b |-> IF b.active_node # 0 THEN set_suffix_link(b2, b.active_node) ELSE b2,
              ret |-> TRUE]
    ELSE [b |-> b, ret |-> FALSE]

\* insert_internal_node as it would be if the new internal node ended
\* where it starts.
insert_internal_node_empty(b, next_symbol, active_symbol, active_length) ==
    IF ActiveEdgeNodePanics(b)
    THEN [b |-> Panic(b, "active_edge_node"), ret |-> FALSE]
    ELSE
    LET edge_node == active_edge_node(b)
        active_seq_id == N(b, edge_node).seq_id
        active_start == N(b, edge_node).start
        split_position == active_start + active_length
    IN  IF N(b, edge_node).kind = "Root" \/ AtPanics(SeqOf(b, active_seq_id), split_position)
        THEN [b |-> Panic(b, "insert_internal_node"), ret |-> FALSE]
        ELSE
        IF Sequence_at(SeqOf(b, active_seq_id), split_position) # next_symbol
        THEN LET b1 == [b EXCEPT !.nodes[edge_node + 1].start = split_position]
                 node_a == Len(b1.nodes)
                 b2 == add_node(b1, Node_new_internal(b.alphabet.size, active_seq_id,
                                                      active_start, active_start))
                 b3 == add_child(b2, b.active_node, active_symbol, node_a)
                 symbol_at_split == Sequence_at(SeqOf(b, active_seq_id), split_position)
                 b4 == add_child(b3, node_a, symbol_at_split, edge_node)
                 node_b == Len(b4.nodes)
                 b5 == add_node(b4, Node_new_leaf(current_sequence(b).id, b.position))
                 b6 == add_child(b5, node_a, next_symbol, node_b)
                 b7 == set_suffix_link(b6, node_a)
             IN  [b |-> IF b7.panic # "" THEN b7
                        ELSE [b7 EXCEPT !.previously_created_node = node_a],
                  ret |-> TRUE]
        ELSE [b |-> b, ret |-> FALSE]

\* insert_internal_node as it would be if the split left the start of the
\* old edge node where it was.
insert_internal_node_keep_start(b, next_symbol, active_symbol, active_length) ==
    IF ActiveEdgeNodePanics(b)
    THEN [b |-> Panic(b, "active_edge_node"), ret |-> FALSE]
    ELSE
    LET edge_node == active_edge_node(b)
        active_seq_id == N(b, edge_node).seq_id
        active_start == N(b, edge_node).start
        split_position == active_start + active_length
    IN  IF N(b, edge_node).kind = "Root" \/ AtPanics(SeqOf(b, active_seq_id), split_position)
        THEN [b |-> Panic(b, "insert_internal_node"), ret |-> FALSE]
        ELSE
        IF Sequence_at(SeqOf(b, active_seq_id), split_position) # next_symbol
        THEN LET b1 == b
                 node_a == Len(b1.nodes)
                 b2 == add_node(b1, Node_new_internal(b.alphabet.size, active_seq_id,
                                                      active_start, split_position))
                 b3 == add_child(b2, b.active_node, active_symbol, node_a)
                 symbol_at_split == Sequence_at(SeqOf(b, active_seq_id), split_position)
                 b4 == add_child(b3, node_a, symbol_at_split, edge_node)
                 node_b == Len(b4.nodes)
                 b5 == add_node(b4, Node_new_leaf(current_sequence(b).id, b.position))
                 b6 == add_child(b5, node_a, next_symbol, node_b)
                 b7 == set_suffix_link(b6, node_a)
             IN  [b |-> IF b7.panic # "" THEN b7
                        ELSE [b7 EXCEPT !.previously_created_node = node_a],
                  ret |-> TRUE]
        ELSE [b |-> b, ret |-> FALSE]

\* SuffixTreeBuilder::insert_internal_node
insert_internal_node(b, next_symbol, active_symbol, active_length) ==
    IF ActiveEdgeNodePanics(b)
    THEN [b |-> Panic(b, "active_edge_node"), ret |-> FALSE]
    ELSE
    LET edge_node == active_edge_node(b)
        active_seq_id == N(b, edge_node).seq_id
        active_start == N(b, edge_node).start
        split_position == active_start + active_length
    IN  IF N(b, edge_node).kind = "Root" \/ AtPanics(SeqOf(b, active_seq_id), split_position)
        THEN [b |-> Panic(b, "insert_internal_node"), ret |-> FALSE]
        ELSE
        IF Sequence_at(SeqOf(b, active_seq_id), split_position) # next_symbol
        THEN LET b1 == [b EXCEPT !.nodes[edge_node + 1].start = split_position]
                 node_a == Len(b1.nodes)
                 b2 == add_node(b1, Node_new_internal(b.alphabet.size, active_seq_id,
                                                      active_start, split_position))
                 b3 == add_child(b2, b.active_node, active_symbol, node_a)
                 symbol_at_split == Sequence_at(SeqOf(b, active_seq_id), split_position)
                 b4 == add_child(b3, node_a, symbol_at_split, edge_node)
                 node_b == Len(b4.nodes)
                 b5 == add_node(b4, Node_new_leaf(current_sequence(b).id, b.position))
                 b6 == add_child(b5, node_a, next_symbol, node_b)
                 b7 == set_suffix_link(b6, node_a)
             IN  [b |-> IF b7.panic # "" THEN b7
                        ELSE [b7 EXCEPT !.previously_created_node = node_a],
                  ret |-> TRUE]
        ELSE [b |-> b, ret |-> FALSE]

\* SuffixTreeBuilder::insert_node
insert_node(b, next_symbol) ==
    IF Len(b.active_edge) # 0
    THEN insert_internal_node(b, next_symbol, b.active_edge[1], b.active_edge[2])
    ELSE insert_leaf_node(b, next_symbol)

\* SuffixTreeBuilder::active_edge_lenght.  usize subtraction below zero
\* panics (overflow check).
active_edge_lenght(b) ==
    LET node == N(b, active_edge_node(b))
    IN  IF node.kind = "Internal"
        THEN node.end - node.start
        ELSE LET offset == IF node.seq_id = current_sequence(b).id THEN 1 ELSE 0
             IN  (Sequence_len(SeqOf(b, node.seq_id)) + offset) - node.start

ActiveEdgeLenghtPanics(b) ==
    \/ ActiveEdgeNodePanics(b)
    \/ N(b, active_edge_node(b)).kind = "Root"
    \/ active_edge_lenght(b) < 0

\* normalize_active_point as it would be if an active length equal to the
\* edge length stayed on the edge.
RECURSIVE normalize_active_point_stay(_)
normalize_active_point_stay(b) ==
    IF b.panic # "" \/ Len(b.active_edge) = 0 THEN b
    ELSE IF b.active_edge[2] = 0 THEN [b EXCEPT !.active_edge = <<>>]
    ELSE IF ActiveEdgeLenghtPanics(b) THEN Panic(b, "active_edge_lenght")
    ELSE
    LET active_length == b.active_edge[2]
        edge_length == active_edge_lenght(b)
        active_symbol_index == b.position - active_length + edge_length
    IN  IF active_length <= edge_length THEN b
        ELSE IF active_length = edge_length
        THEN [b EXCEPT !.active_node = active_edge_node(b), !.active_edge = <<>>]
        ELSE IF \/ b.position - active_length < 0
                \/ AtPanics(current_sequence(b), active_symbol_index)
        THEN Panic(b, "normalize_active_point")
        ELSE normalize_active_point_stay(
                 [b EXCEPT !.active_node = active_edge_node(b),
                           !.active_edge = <<Sequence_at(current_sequence(b), active_symbol_index),
                                             active_length - edge_length>>])

\* SuffixTreeBuilder::normalize_active_point
RECURSIVE normalize_active_point(_)
normalize_active_point(b) ==
    IF b.panic # "" \/ Len(b.active_edge) = 0 THEN b
    ELSE IF b.active_edge[2] = 0 THEN [b EXCEPT !.active_edge = <<>>]
    ELSE IF ActiveEdgeLenghtPanics(b) THEN Panic(b, "active_edge_lenght")
    ELSE
    LET active_length == b.active_edge[2]
        edge_length == active_edge_lenght(b)
        active_symbol_index == b.position - active_length + edge_length
    IN  IF active_length < edge_length THEN b
        ELSE IF active_length = edge_length
        THEN [b EXCEPT !.active_node = active_edge_node(b), !.active_edge = <<>>]
        ELSE IF \/ b.position - active_length < 0
                \/ AtPanics(current_sequence(b), active_symbol_index)
        THEN Panic(b, "normalize_active_point")
        ELSE normalize_active_point(
                 [b EXCEPT !.active_node = active_edge_node(b),
                           !.active_edge = <<Sequence_at(current_sequence(b), active_symbol_index),
                                             active_length - edge_length>>])

\* update_active_point as it would be if, at the root, the active edge kept
\* its first symbol and only lost one of its length.
update_active_point_keep_symbol(b) ==
    LET node == N(b, b.active_node)
        index == b.position + 2 - b.remaining
    IN  IF node.kind = "Root"
        THEN IF Len(b.active_edge) # 0
             THEN IF b.active_edge[2] - 1 < 0
                  THEN Panic(b, "update_active_point")
                  ELSE normalize_active_point(
                           [b EXCEPT !.active_edge = <<b.active_edge[1], b.active_edge[2] - 1>>])
             ELSE normalize_active_point(b)
        ELSE IF node.kind = "Internal" /\ node.suffix_link # None
        THEN normalize_active_point([b EXCEPT !.active_node = node.suffix_link])
        ELSE IF index < 0 \/ AtPanics(current_sequence(b), index) \/ b.remaining - 2 < 0
             THEN Panic(b, "update_active_point")
             ELSE normalize_active_point(
                      [b EXCEPT !.active_node = 0,
                                !.active_edge = <<Sequence_at(current_sequence(b), index),
                                                  b.remaining - 2>>])

\* update_active_point as it would be if the root arm took one off the
\* active length only when the length exceeds one.
update_active_point_late(b) ==
    LET node == N(b, b.active_node)
        index == b.position + 2 - b.remaining
    IN  IF node.kind = "Root"
        THEN IF Len(b.active_edge) # 0
             THEN IF index < 0 \/ AtPanics(current_sequence(b), index) \/ b.active_edge[2] - 1 < 0
                  THEN Panic(b, "update_active_point")
                  ELSE normalize_active_point(
                           [b EXCEPT !.active_edge = <<Sequence_at(current_sequence(b), index),
                                                       IF b.active_edge[2] > 1 THEN b.active_edge[2] - 1 ELSE 1>>])
             ELSE normalize_active_point(b)
        ELSE IF node.kind = "Internal" /\ node.suffix_link # None
        THEN normalize_active_point([b EXCEPT !.active_node = node.suffix_link])
        ELSE IF index < 0 \/ AtPanics(current_sequence(b), index) \/ b.remaining - 2 < 0
             THEN Panic(b, "update_active_point")
             ELSE normalize_active_point(
                      [b EXCEPT !.active_node = 0,
                                !.active_edge = <<Sequence_at(current_sequence(b), index),
                                                  b.remaining - 2>>])

\* SuffixTreeBuilder::update_active_point
update_active_point(b) ==
    LET node == N(b, b.active_node)
        index == b.position + 2 - b.remaining
    IN  IF node.kind = "Root"
        THEN IF Len(b.active_edge) # 0
             THEN IF index < 0 \/ AtPanics(current_sequence(b), index) \/ b.active_edge[2] - 1 < 0
                  THEN Panic(b, "update_active_point")
                  ELSE normalize_active_point(
                           [b EXCEPT !.active_edge = <<Sequence_at(current_sequence(b), index),
                                                       b.active_edge[2] - 1>>])
             ELSE normalize_active_point(b)
        ELSE IF node.kind = "Internal" /\ node.suffix_link # None
        THEN normalize_active_point([b EXCEPT !.active_node = node.suffix_link])
        ELSE IF index < 0 \/ AtPanics(current_sequence(b), index) \/ b.remaining - 2 < 0
             THEN Panic(b, "update_active_point")
             ELSE normalize_active_point(
                      [b EXCEPT !.active_node = 0,
                                !.active_edge = <<Sequence_at(current_sequence(b), index),
                                                  b.remaining - 2>>])

\* The iteration as it would be if the branch that breaks out of the loop
\* decremented `remaining` too.
Extension_break_decrements(b, next_symbol) ==
    LET r == insert_node(b, next_symbol)
    IN  IF r.b.panic # "" THEN [b |-> r.b, brk |-> TRUE]
        ELSE IF r.ret
        THEN LET b1 == update_active_point(r.b)
             IN  [b |-> IF b1.panic # "" THEN b1 ELSE [b1 EXCEPT !.remaining = @ - 1],
                  brk |-> FALSE]
        ELSE [b |-> normalize_active_point(
                        [r.b EXCEPT !.remaining = @ - 1,
                                    !.active_edge =
                            IF Len(@) # 0 THEN <<@[1], @[2] + 1>> ELSE <<next_symbol, 1>>]),
              brk |-> TRUE]

\* The iteration as it would be if `remaining` were decremented before the
\* active point is updated.
Extension_decrement_first(b, next_symbol) ==
    LET r == insert_node(b, next_symbol)
    IN  IF r.b.panic # "" THEN [b |-> r.b, brk |-> TRUE]
        ELSE IF r.ret
        THEN [b |-> update_active_point([r.b EXCEPT !.remaining = @ - 1]), brk |-> FALSE]
        ELSE [b |-> normalize_active_point(
                        [r.b EXCEPT !.active_edge =
                            IF Len(@) # 0 THEN <<@[1], @[2] + 1>> ELSE <<next_symbol, 1>>]),
              brk |-> TRUE]

\* The iteration as it would be if an extension left `remaining` as it was.
Extension_keep_remaining(b, next_symbol) ==
    LET r == insert_node(b, next_symbol)
    IN  IF r.b.panic # "" THEN [b |-> r.b, brk |-> TRUE]
        ELSE IF r.ret
        THEN [b |-> update_active_point(r.b), brk |-> FALSE]
        ELSE [b |-> normalize_active_point(
                        [r.b EXCEPT !.active_edge =
                            IF Len(@) # 0 THEN <<@[1], @[2] + 1>> ELSE <<next_symbol, 1>>]),
              brk |-> TRUE]

\* One iteration of the for loop of insert_next_symbol; brk tells whether
\* the iteration left the loop with `break`.
Extension(b, next_symbol) ==
    LET r == insert_node(b, next_symbol)
    IN  IF r.b.panic # "" THEN [b |-> r.b, brk |-> TRUE]
        ELSE IF r.ret
        THEN LET b1 == update_active_point(r.b)
             IN  [b |-> IF b1.panic # "" THEN b1 ELSE [b1 EXCEPT !.remaining = @ - 1],
                  brk |-> FALSE]
        ELSE [b |-> normalize_active_point(
                        [r.b EXCEPT !.active_edge =
                            IF Len(@) # 0 THEN <<@[1], @[2] + 1>> ELSE <<next_symbol, 1>>]),
              brk |-> TRUE]

\* The head of insert_next_symbol, up to the for loop.
BeginStep(b) == [b EXCEPT !.remaining = @ + 1, !.previously_created_node = None]

\* add_sequence as it would be if the assertion came after the push and
\* the resets.
BeginSequence_push_first(b, data) ==
    LET seq_id == Len(b.sequences)
        pushed == [b EXCEPT !.sequences = Append(@, Sequence_new(seq_id, data)),
                            !.position = 0,
                            !.remaining = 0,
                            !.active_node = 0,
                            !.active_edge = <<>>]
    IN  IF ~(seq_id < MaxSequences)
        THEN Panic(pushed, "this suffix tree contains more than 128 sequences")
        ELSE pushed

\* SuffixTree::add_sequence followed by the resets of
\* SuffixTreeBuilder::add_sequence, up to the for loop.
BeginSequence(b, data) ==
    LET seq_id == Len(b.sequences)
    IN  IF ~(seq_id < MaxSequences)
        THEN Panic(b, "this suffix tree contains more than 128 sequences")
        ELSE [b EXCEPT !.sequences = Append(@, Sequence_new(seq_id, data)),
                       !.position = 0,
                       !.remaining = 0,
                       !.active_node = 0,
                       !.active_edge = <<>>]

\* The whole of insert_next_symbol and of add_sequence, as the composition
\* of the pieces above.
RECURSIVE InnerLoop(_, _, _)
InnerLoop(b, symbol, n) ==
    IF n = 0 \/ b.panic # "" THEN b
    ELSE LET r == Extension(b, symbol)
         IN  IF r.brk THEN r.b ELSE InnerLoop(r.b, symbol, n - 1)

insert_next_symbol(b) ==
    LET b1 == BeginStep(b)
        b2 == InnerLoop(b1, Sequence_at(current_sequence(b1), b1.position), b1.remaining)
    IN  IF b2.panic # "" THEN b2 ELSE [b2 EXCEPT !.position = @ + 1]

RECURSIVE OuterLoop(_, _)
OuterLoop(b, n) ==
    IF n = 0 \/ b.panic # "" THEN b ELSE OuterLoop(insert_next_symbol(b), n - 1)

add_sequence(b, data) ==
    LET b1 == BeginSequence(b, data)
    IN  IF b1.panic # "" THEN b1 ELSE OuterLoop(b1, Sequence_len(current_sequence(b1)))

\* ------------------------------------------------------------ LCS preparation
\* The children ChildMap::iter yields, as a set.
ChildSet(b, node) ==
    {N(b, node).children.terminals[i] : i \in DOMAIN N(b, node).children.terminals}
    \cup {c \in {N(b, node).children.regular[k] : k \in 1..Len(N(b, node).children.regular)} :
              c # None}

\* _prepare_lcs as it would be if a leaf returned the mask
\* (1 << (seq_id + 1)) - 1 instead of the bit 1 << seq_id.
RECURSIVE IdSet_mask(_, _)
IdSet_mask(b, node) ==
    IF N(b, node).kind = "Leaf" THEN 0..N(b, node).seq_id
    ELSE UNION {IdSet_mask(b, child) : child \in ChildSet(b, node)}

\* The value _prepare_lcs returns for `node`: the OR of the children's
\* values at an internal node, 1 << seq_id at a leaf.
RECURSIVE IdSet(_, _)
IdSet(b, node) ==
    IF N(b, node).kind = "Leaf" THEN {N(b, node).seq_id}
    ELSE UNION {IdSet(b, child) : child \in ChildSet(b, node)}

\* The nodes _prepare_lcs visits from `node` on.
RECURSIVE Visited(_, _)
Visited(b, node) ==
    {node} \cup UNION {Visited(b, child) : child \in ChildSet(b, node)}

\* prepare_lcs as it would be if _prepare_lcs did not descend: only the
\* children of the root get their set.
prepare_lcs_no_descent(b) ==
    LET visited == ChildSet(b, 0)
    IN  IF 0 \in visited THEN Panic(b, "prepare_lcs")
        ELSE [b EXCEPT !.nodes =
                 [n \in 1..Len(b.nodes) |->
                     IF (n - 1) \in visited /\ b.nodes[n].kind = "Internal"
                     THEN [b.nodes[n] EXCEPT !.sequence_id_set = <<IdSet(b, n - 1)>>]
                     ELSE b.nodes[n]]]

\* SuffixTree::prepare_lcs: every internal node visited from a child of the
\* root gets Some(id_set); visiting the root again panics.
prepare_lcs(b) ==
    LET visited == UNION {Visited(b, child) : child \in ChildSet(b, 0)}
    IN  IF 0 \in visited THEN Panic(b, "prepare_lcs")
        ELSE [b EXCEPT !.nodes =
                 [n \in 1..Len(b.nodes) |->
                     IF (n - 1) \in visited /\ b.nodes[n].kind = "Internal"
                     THEN [b.nodes[n] EXCEPT !.sequence_id_set = <<IdSet(b, n - 1)>>]
                     ELSE b.nodes[n]]]

\* SuffixTreeBuilder::build
build(b) == prepare_lcs(b)

\* for sequence in sequences { add_sequence(sequence) }, from the k-th
\* payload on; a panic ends the loop.
RECURSIVE FoldSequences(_, _, _)
FoldSequences(b, datas, k) ==
    IF k > Len(datas) THEN b
    ELSE LET added == add_sequence(b, datas[k])
         IN  IF added.panic # "" THEN added ELSE FoldSequences(added, datas, k + 1)

\* SuffixTree::from_sequences
from_sequences(datas, alphabet) ==
    LET b == FoldSequences(SuffixTreeBuilder_new(alphabet), datas, 1)
    IN  IF b.panic # "" THEN b ELSE build(b)

\* ------------------------------------------------------------ queries
\* A query's outcome is [panic |-> "" or the cause, ret |-> the value].
Ret(value) == [panic |-> "", ret |-> value]
QueryPanic(why) == [panic |-> why, ret |-> <<>>]

\* The two slicing forms used for edge labels; both panic when the range
\* is not inside the payload.
Slice(data, start, end) == SubSeq(data, start + 1, end)
SlicePanics(data, start, end) == start > end \/ end > Len(data) \/ start < 0

\* The loop of SuffixTree::find_node, from one iteration's head.
RECURSIVE find_node_loop(_, _, _, _)
find_node_loop(b, pattern, current_node, remaining) ==
    LET depth == Len(pattern) - remaining
    IN  IF depth >= Len(pattern) THEN QueryPanic("index out of bounds")
        ELSE
        LET symbol == Regular(pattern[depth + 1])
        IN  IF GetChildPanics(b, current_node, symbol) THEN QueryPanic("get_child")
            ELSE
            LET child == get_child(b, current_node, symbol)
            IN  IF child = None THEN Ret(<<>>)
                ELSE
                LET node == N(b, child)
                    data == SeqOf(b, node.seq_id).data
                    label_end == IF node.kind = "Internal" THEN node.end ELSE Len(data)
                IN  IF node.kind = "Root" \/ SlicePanics(data, node.start, label_end)
                    THEN QueryPanic("label")
                    ELSE
                    LET label == Slice(data, node.start, label_end)
                    IN  IF remaining < Len(label)
                        THEN IF Slice(pattern, depth, Len(pattern)) # Slice(label, 0, remaining)
                             THEN Ret(<<>>)
                             ELSE Ret(<<child, remaining>>)
                        ELSE IF Slice(pattern, depth, depth + Len(label)) # label
                        THEN Ret(<<>>)
                        ELSE IF remaining = Len(label) THEN Ret(<<child, remaining>>)
                        ELSE IF Node_is_leaf(node) THEN Ret(<<>>)
                        ELSE find_node_loop(b, pattern, child, remaining - Len(label))

\* find_node as it would be if it tested for the end of the pattern before
\* reading a byte of it: the empty pattern matches nothing.
find_node_checked(b, pattern) ==
    IF pattern = <<>> THEN Ret(<<>>) ELSE find_node_loop(b, pattern, 0, Len(pattern))

\* SuffixTree::find_node
find_node(b, pattern) == find_node_loop(b, pattern, 0, Len(pattern))

\* SuffixTree::contains
contains(b, pattern) ==
    LET found == find_node(b, pattern)
    IN  IF found.panic # "" THEN found ELSE Ret(found.ret # <<>>)

\* flat_map: the concatenation of the lists, from the k-th on.
RECURSIVE Flatten(_, _)
Flatten(seqs, k) == IF k > Len(seqs) THEN <<>> ELSE seqs[k] \o Flatten(seqs, k + 1)

\* node_occurences as it would be if a leaf yielded its own start, without
\* subtracting the depth.
RECURSIVE node_occurences_leaf_start(_, _, _, _)
node_occurences_leaf_start(b, node, depth, order) ==
    IF N(b, node).kind = "Root" THEN <<>>
    ELSE IF N(b, node).kind = "Internal"
    THEN LET children == ChildMap_iter(N(b, node).children, order)
         IN  Flatten([k \in 1..Len(children) |->
                         node_occurences_leaf_start(b, children[k], depth, order)], 1)
    ELSE <<<<N(b, node).seq_id, N(b, node).start>>>>

\* SuffixTree::node_occurences, collected: the pairs (seq_id, position) in
\* the iterator's order.  A position below zero stands for the panic of the
\* usize subtraction `start - depth`.
RECURSIVE node_occurences(_, _, _, _)
node_occurences(b, node, depth, order) ==
    IF N(b, node).kind = "Root" THEN <<>>
    ELSE IF N(b, node).kind = "Internal"
    THEN LET edge_length == N(b, node).end - N(b, node).start
             children == ChildMap_iter(N(b, node).children, order)
         IN  Flatten([k \in 1..Len(children) |->
                         node_occurences(b, children[k], depth + edge_length, order)], 1)
    ELSE <<<<N(b, node).seq_id, N(b, node).start - depth>>>>

\* The triples as they would be if the occurrence's position were taken for
\* the start of the match: start = position, end = position + length.
Triples_from_position(occurences, stretch, length) ==
    [k \in 1..Len(occurences) |->
        <<occurences[k][1], occurences[k][2], occurences[k][2] + length>>]

\* The triples an occurrence list is mapped to by find and by
\* longest_common_subsequence: end = position + stretch, start = end - length.
Triples(occurences, stretch, length) ==
    [k \in 1..Len(occurences) |->
        <<occurences[k][1],
          occurences[k][2] + stretch - length,
          occurences[k][2] + stretch>>]

TriplesPanic(triples) ==
    \E k \in 1..Len(triples) : triples[k][2] < 0 \/ triples[k][3] - triples[k][2] < 0

\* SuffixTree::find, with the iterator drained.
find(b, pattern, order) ==
    LET found == find_node(b, pattern)
    IN  IF found.panic # "" THEN found
        ELSE IF found.ret = <<>> THEN Ret(<<>>)
        ELSE LET triples == Triples(node_occurences(b, found.ret[1], 0, order),
                                    found.ret[2], Len(pattern))
             IN  IF TriplesPanic(triples) THEN QueryPanic("overflow") ELSE Ret(triples)

\* The iterator's first element, as if next() stood for max_by_key().
RECURSIVE first_of(_, _)
first_of(pairs, k) == IF k > Len(pairs) THEN <<>> ELSE pairs[k]

\* max_by_key as it would be if it kept the first of the maximal elements.
RECURSIVE max_by_key_first(_, _)
max_by_key_first(pairs, k) ==
    IF k > Len(pairs) THEN <<>>
    ELSE LET rest == max_by_key_first(pairs, k + 1)
         IN  IF rest # <<>> /\ rest[2] > pairs[k][2] THEN rest ELSE pairs[k]

\* Iterator::max_by_key over pairs (node, depth): the last of the maximal
\* elements; <<>> for an empty iterator.
RECURSIVE max_by_key(_, _)
max_by_key(pairs, k) ==
    IF k > Len(pairs) THEN <<>>
    ELSE LET rest == max_by_key(pairs, k + 1)
         IN  IF rest # <<>> /\ rest[2] >= pairs[k][2] THEN rest ELSE pairs[k]

\* filter_map over Options: the Some values, in order.
RECURSIVE Somes(_, _)
Somes(options, k) ==
    IF k > Len(options) THEN <<>>
    ELSE IF options[k] # <<>> THEN <<options[k]>> \o Somes(options, k + 1)
    ELSE Somes(options, k + 1)

\* The inner fn _longest_common_subsequence; <<>> is None.
RECURSIVE _longest_common_subsequence(_, _, _, _)
_longest_common_subsequence(b, node, depth, order) ==
    IF N(b, node).kind = "Internal"
    THEN LET all_bits_set == 0..(Len(b.sequences) - 1)
             edge_length == N(b, node).end - N(b, node).start
             children == ChildMap_iter(N(b, node).children, order)
             found == Somes([k \in 1..Len(children) |->
                                _longest_common_subsequence(b, children[k],
                                                            depth + edge_length, order)], 1)
         IN  IF N(b, node).sequence_id_set[1] # all_bits_set THEN <<>>
             ELSE IF found # <<>> THEN max_by_key(found, 1)
             ELSE <<node, depth + edge_length>>
    ELSE <<>>

\* Whether the recursion from `node` panics: the unwrap of a sequence_id_set
\* that is None, or the root met below the root.
RECURSIVE LcsPanics(_, _)
LcsPanics(b, node) ==
    IF N(b, node).kind = "Root" THEN TRUE
    ELSE IF N(b, node).kind = "Leaf" THEN FALSE
    ELSE \/ N(b, node).sequence_id_set = <<>>
         \/ /\ N(b, node).sequence_id_set[1] = 0..(Len(b.sequences) - 1)
            /\ \E child \in ChildSet(b, node) : LcsPanics(b, child)

\* SuffixTree::longest_common_subsequence, with the iterator drained.
longest_common_subsequence(b, order) ==
    IF \E child \in ChildSet(b, 0) : LcsPanics(b, child) THEN QueryPanic("unwrap")
    ELSE
    LET children == ChildMap_iter(N(b, 0).children, order)
        maybe_node == max_by_key(Somes([k \in 1..Len(children) |->
                                           _longest_common_subsequence(b, children[k], 0, order)], 1), 1)
    IN  IF maybe_node = <<>> THEN Ret(<<>>)
        ELSE LET node == maybe_node[1]
                 depth == maybe_node[2]
                 edge_length == N(b, node).end - N(b, node).start
                 triples == Triples(node_occurences(b, node, 0, order), edge_length, depth)
             IN  IF TriplesPanic(triples) THEN QueryPanic("overflow") ELSE Ret(triples)

\* The top-level longest_common_subsequence on the tree built from the
\* sequences: .take(1).last() keeps the first triple; <<"None">> or
\* <<"Some", slice>>.
TopLevelLcs(b, order) ==
    LET result == longest_common_subsequence(b, order)
    IN  IF result.panic # "" THEN result
        ELSE IF result.ret = <<>> THEN Ret(<<"None">>)
        ELSE LET seq_id == result.ret[1][1]
                 start == result.ret[1][2]
                 end == result.ret[1][3]
             IN  IF SlicePanics(SeqOf(b, seq_id).data, start, end) THEN QueryPanic("slice")
                 ELSE Ret(<<"Some", Slice(SeqOf(b, seq_id).data, start, end)>>)

\* sequence_by_id as it would be if it counted from the last sequence.
sequence_by_id_from_last(b, seq_id) ==
    IF seq_id >= Len(b.sequences) THEN QueryPanic("index out of bounds")
    ELSE Ret(SeqOf(b, Len(b.sequences) - 1 - seq_id).data)

\* SuffixTree::sequence_by_id
sequence_by_id(b, seq_id) ==
    IF seq_id >= Len(b.sequences) THEN QueryPanic("index out of bounds")
    ELSE Ret(SeqOf(b, seq_id).data)

\* ------------------------------------------------------------ pretty_print
\* A String is the sequence of its chars (Unicode scalar values); the
\* payloads explored are ASCII, so a String's len() is its number of chars.
BoxFirst == 9523             \* '┳'
BoxNext == 9507              \* '┣'
BoxBar == 9475               \* '┃'
BoxLast == 9495              \* '┗'
Space == 32
Dollar == 36
Newline == 10

\* format!("{}", n) of a usize.
RECURSIVE Digits(_)
Digits(n) == IF n < 10 THEN <<48 + n>> ELSE Digits(n \div 10) \o <<48 + (n % 10)>>

\* "<invalid_string>"
InvalidString == <<60, 105, 110, 118, 97, 108, 105, 100, 95, 115, 116, 114, 105, 110, 103, 62>>

\* str::from_utf8(bytes).unwrap_or("<invalid_string>"): bytes below 128 are
\* their own chars; a byte from 128 on is taken for invalid (multi-byte
\* encodings are outside the payloads explored).
FromUtf8(bytes) ==
    IF \A k \in 1..Len(bytes) : bytes[k] < 128 THEN bytes ELSE InvalidString

\* Sequence::substring; maybe_end is <<>> (None) or <<end>>.
SubstringPanics(sequence, start, maybe_end) ==
    SlicePanics(sequence.data, start,
                IF maybe_end = <<>> THEN Len(sequence.data) ELSE maybe_end[1])
Sequence_substring(sequence, start, maybe_end) ==
    LET end == IF maybe_end = <<>> THEN Len(sequence.data) ELSE maybe_end[1]
        substr == FromUtf8(Slice(sequence.data, start, end))
    IN  IF maybe_end = <<>>
        THEN substr \o <<Dollar>> \o Digits(sequence.id)
        ELSE substr

\* " ".repeat(n)
RECURSIVE Spaces(_)
Spaces(n) == IF n = 0 THEN <<>> ELSE <<Space>> \o Spaces(n - 1)

\* children.sort(): insertion of x into the ascending list `sorted`, and
\* the sort of the first k elements of ids.
RECURSIVE SortedInsert(_, _, _)
SortedInsert(sorted, x, k) ==
    IF k > Len(sorted) THEN Append(sorted, x)
    ELSE IF x < sorted[k]
    THEN SubSeq(sorted, 1, k - 1) \o <<x>> \o SubSeq(sorted, k, Len(sorted))
    ELSE SortedInsert(sorted, x, k + 1)
RECURSIVE SortPrefix(_, _)
SortPrefix(ids, k) ==
    IF k = 0 THEN <<>> ELSE SortedInsert(SortPrefix(ids, k - 1), ids[k], 1)
\* The children as collected, as if children.sort() were missing.
sort_missing(ids) == ids
sort(ids) == SortPrefix(ids, Len(ids))

\* The text _pretty_print gives a node.
NodeText(b, node) ==
    IF N(b, node).kind = "Root" THEN <<>>
    ELSE IF N(b, node).kind = "Internal"
    THEN Sequence_substring(SeqOf(b, N(b, node).seq_id), N(b, node).start, <<N(b, node).end>>)
    ELSE Sequence_substring(SeqOf(b, N(b, node).seq_id), N(b, node).start, <<>>)

\* The match on (i, j) in _pretty_print: the j-th line of the i-th of n
\* children (both 0-based), prefixed.
PrefixedLine(text, indent, line, i, j, n) ==
    IF i = 0 /\ j = 0 THEN text \o <<BoxFirst>> \o line
    ELSE IF j = 0 /\ i < n - 1 THEN indent \o <<BoxNext>> \o line
    ELSE IF i < n - 1 THEN indent \o <<BoxBar>> \o line
    ELSE IF j = 0 THEN indent \o <<BoxLast>> \o line
    ELSE indent \o <<Space>> \o line

\* The lines pushed for the i-th child, from its j-th line on.
RECURSIVE PrefixedLines(_, _, _, _, _, _)
PrefixedLines(text, indent, lines, i, j, n) ==
    IF j >= Len(lines) THEN <<>>
    ELSE <<PrefixedLine(text, indent, lines[j + 1], i, j, n)>>
             \o PrefixedLines(text, indent, lines, i, j + 1, n)

\* The inner fn _pretty_print: the lines of the subtree of `node`.
RECURSIVE _pretty_print(_, _, _)
_pretty_print(b, node, order) ==
    LET text == NodeText(b, node)
    IN  IF Node_is_leaf(N(b, node)) THEN <<text>>
        ELSE LET indent == Spaces(Len(text))
                 children == sort(ChildMap_iter(N(b, node).children, order))
             IN  Flatten([i \in 1..Len(children) |->
                             PrefixedLines(text, indent,
                                           _pretty_print(b, children[i], order),
                                           i - 1, 0, Len(children))], 1)

\* lines.join("\n"), from the k-th line on.
RECURSIVE Join(_, _)
Join(lines, k) ==
    IF k > Len(lines) THEN <<>>
    ELSE IF k = Len(lines) THEN lines[k]
    ELSE lines[k] \o <<Newline>> \o Join(lines, k + 1)

\* Whether some node's text panics (a slice outside the payload).
PrettyPrintPanics(b) ==
    \E n \in 1..Len(b.nodes) :
        /\ b.nodes[n].kind # "Root"
        /\ SubstringPanics(SeqOf(b, b.nodes[n].seq_id), b.nodes[n].start,
                           IF b.nodes[n].kind = "Internal" THEN <<b.nodes[n].end>> ELSE <<>>)

\* SuffixTree::pretty_print
pretty_print(b, order) ==
    IF PrettyPrintPanics(b) THEN QueryPanic("slice")
    ELSE Ret(Join(_pretty_print(b, 0, order), 1))

\* ------------------------------------------------------------ state
VARIABLES
    alphabet,                 \* SuffixTree.alphabet
    sequences,                \* SuffixTree.sequences
    nodes,                    \* SuffixTree.nodes
    active_node,              \* SuffixTreeBuilder fields
    active_edge,
    position,
    remaining,
    previously_created_node,
    panic,                    \* "" or the cause of the panic that ended the run
    pc,                       \* where the program is (see below)
    steps_left,               \* iterations left in the for loop of add_sequence
    next_symbol,              \* the local of insert_next_symbol
    iterations_left,          \* iterations left in the for loop of insert_next_symbol
    call,                     \* <<operation, argument, outcome>> of the pending query
    passed                    \* the payloads the caller handed to add_sequence, in order

\* pc = "builder":            a SuffixTreeBuilder between two calls
\*      "add_sequence":       in add_sequence, before a call of insert_next_symbol
\*      "insert_next_symbol": in the for loop of insert_next_symbol
\*      "tree":               the SuffixTree returned by build()
\*      "panicked":           a call panicked
vars == <<alphabet, sequences, nodes, active_node, active_edge, position, remaining,
          previously_created_node, panic, pc, steps_left, next_symbol, iterations_left,
          call, passed>>

Builder ==
    [alphabet |-> alphabet, sequences |-> sequences, nodes |-> nodes,
     active_node |-> active_node, active_edge |-> active_edge,
     position |-> position, remaining |-> remaining,
     previously_created_node |-> previously_created_node, panic |-> panic]

SetBuilder(b) ==
    /\ alphabet' = b.alphabet
    /\ sequences' = b.sequences
    /\ nodes' = b.nodes
    /\ active_node' = b.active_node
    /\ active_edge' = b.active_edge
    /\ position' = b.position
    /\ remaining' = b.remaining
    /\ previously_created_node' = b.previously_created_node
    /\ panic' = b.panic

builderVars == <<alphabet, sequences, nodes, active_node, active_edge, position,
                 remaining, previously_created_node, panic>>

NoCall == <<"none", <<>>, <<>>>>
NoSymbol == <<"none", 0>>

\* The alphabets a builder is constructed with: None (the default, ASCII)
\* or Some(Alphabet::new(b"ATGC")).
Alphabets == {ASCII, ATGC}

InitBuilder(b) ==
    /\ alphabet = b.alphabet
    /\ sequences = b.sequences
    /\ nodes = b.nodes
    /\ active_node = b.active_node
    /\ active_edge = b.active_edge
    /\ position = b.position
    /\ remaining = b.remaining
    /\ previously_created_node = b.previously_created_node
    /\ panic = b.panic

Init ==
    /\ \E a \in Alphabets : InitBuilder(SuffixTreeBuilder_new(a))
    /\ pc = "builder"
    /\ steps_left = 0
    /\ next_symbol = NoSymbol
    /\ iterations_left = 0
    /\ call = NoCall
    /\ passed = <<>>

\* ------------------------------------------------------------ inputs
SeqsUpTo(S, n) == UNION {[1..k -> S] : k \in 0..n}
\* The length of the stream fed so far: every payload and its terminal.
RECURSIVE StreamFrom(_, _)
StreamFrom(seqs, k) ==
    IF k > Len(seqs) THEN 0 ELSE Sequence_len(seqs[k]) + StreamFrom(seqs, k + 1)
StreamLen(seqs) == StreamFrom(seqs, 1)

\* The byte strings of length <= n fed to the program: all over the bytes of
\* the alphabet, and the short ones that hold a byte outside it.
Inputs(n) ==
    SeqsUpTo(KnownBytes, n) \cup SeqsUpTo(Bytes, IF n < MaxForeign THEN n ELSE MaxForeign)

\* The patterns asked of a tree, the empty one among them.
Patterns == Inputs(MaxPat)

\* The iteration orders of the terminals' hash maps that are explored:
\* ascending and descending sequence ids.
HashOrders ==
    {[k \in 1..Len(sequences) |-> k - 1],
     [k \in 1..Len(sequences) |-> Len(sequences) - k]}

\* ------------------------------------------------------------ construction
\* add_sequence(data), up to its for loop.
AddSequenceCall(data) ==
    /\ pc = "builder"
    /\ LET b == BeginSequence(Builder, data)
       IN  /\ SetBuilder(b)
           /\ IF b.panic # ""
              THEN pc' = "panicked" /\ steps_left' = steps_left
              ELSE pc' = "add_sequence" /\ steps_left' = Sequence_len(current_sequence(b))
    /\ passed' = Append(passed, data)
    /\ UNCHANGED <<next_symbol, iterations_left, call>>

AddSequence ==
    \E data \in Inputs(MaxStream - StreamLen(sequences) - 1) :
        AddSequenceCall(data)

\* insert_next_symbol, up to its for loop (`0..self.remaining` is evaluated
\* once, after the increment).
InsertNextSymbol ==
    /\ pc = "add_sequence"
    /\ steps_left > 0
    /\ LET b == BeginStep(Builder)
       IN  /\ SetBuilder(b)
           /\ next_symbol' = Sequence_at(current_sequence(b), b.position)
           /\ iterations_left' = b.remaining
    /\ steps_left' = steps_left - 1
    /\ pc' = "insert_next_symbol"
    /\ UNCHANGED <<call, passed>>

\* One iteration of the for loop of insert_next_symbol.  When the loop ends
\* (break, or the range is exhausted) position is incremented and control
\* returns to add_sequence, whose own loop ends when steps_left = 0.
Extend ==
    /\ pc = "insert_next_symbol"
    /\ iterations_left > 0
    /\ LET r == Extension(Builder, next_symbol)
           done == r.brk \/ iterations_left = 1
       IN  IF r.b.panic # ""
           THEN /\ SetBuilder(r.b)
                /\ pc' = "panicked"
                /\ UNCHANGED <<iterations_left, next_symbol>>
           ELSE IF done
           THEN /\ SetBuilder([r.b EXCEPT !.position = @ + 1])
                /\ pc' = IF steps_left = 0 THEN "builder" ELSE "add_sequence"
                /\ iterations_left' = 0
                /\ next_symbol' = NoSymbol
           ELSE /\ SetBuilder(r.b)
                /\ pc' = pc
                /\ iterations_left' = iterations_left - 1
                /\ UNCHANGED next_symbol
    /\ UNCHANGED <<steps_left, call, passed>>

\* build(): consumes the builder and returns the tree.
Build ==
    /\ pc = "builder"
    /\ LET b == build(Builder)
       IN  /\ SetBuilder(b)
           /\ pc' = IF b.panic # "" THEN "panicked" ELSE "tree"
    /\ UNCHANGED <<steps_left, next_symbol, iterations_left, call, passed>>

\* ------------------------------------------------------------ queries
\* A query on the built tree; the tree is borrowed immutably.  `call` holds
\* the query's outcome until the caller drops it (Return).
Query(operation, argument, outcome) ==
    /\ pc = "tree"
    /\ call = NoCall
    /\ call' = <<operation, argument, outcome>>
    /\ pc' = IF outcome.panic # "" THEN "panicked" ELSE pc
    /\ UNCHANGED <<builderVars, steps_left, next_symbol, iterations_left, passed>>

Contains == \E pattern \in Patterns : Query("contains", pattern, contains(Builder, pattern))

Find ==
    \E pattern \in Patterns, order \in HashOrders :
        Query("find", pattern, find(Builder, pattern, order))

LongestCommonSubsequence ==
    \E order \in HashOrders :
        Query("longest_common_subsequence", <<>>, longest_common_subsequence(Builder, order))

\* The top-level longest_common_subsequence(sequences, alphabet), whose tree
\* is the one from_sequences builds from the same sequences.
TopLevelLongestCommonSubsequence ==
    \E order \in HashOrders :
        Query("top_level_lcs", <<>>, TopLevelLcs(Builder, order))

SequenceById ==
    \E seq_id \in 0..(Len(sequences) - 1) :
        Query("sequence_by_id", seq_id, sequence_by_id(Builder, seq_id))

PrettyPrint ==
    \E order \in HashOrders :
        Query("pretty_print", <<>>, pretty_print(Builder, order))

\* The caller is done with the outcome of the last query.
Return ==
    /\ pc = "tree"
    /\ call # NoCall
    /\ call' = NoCall
    /\ UNCHANGED <<builderVars, pc, steps_left, next_symbol, iterations_left, passed>>

Next ==
    \/ AddSequence
    \/ InsertNextSymbol
    \/ Extend
    \/ Build
    \/ Contains
    \/ Find
    \/ LongestCommonSubsequence
    \/ TopLevelLongestCommonSubsequence
    \/ SequenceById
    \/ PrettyPrint
    \/ Return

Spec == Init /\ [][Next]_vars

\* ------------------------------------------------------------ near capacity
\* A builder that is filled up to its capacity: empty payloads until
\* MaxCapRoom sequences are left, then payloads of at most MaxCapRoom bytes,
\* the call that finds the builder full included.
AddSequenceNearCapacity ==
    \E data \in Inputs(IF Len(sequences) < MaxSequences - MaxCapRoom THEN 0 ELSE MaxCapRoom) :
        AddSequenceCall(data)

NextCap ==
    \/ AddSequenceNearCapacity
    \/ InsertNextSymbol
    \/ Extend

SpecCap == Init /\ [][NextCap]_vars

\* ------------------------------------------------------------ properties
Ids == 0..(Len(sequences) - 1)
Data(seq_id) == sequences[seq_id + 1].data
Range(seq) == {seq[k] : k \in 1..Len(seq)}
NoDuplicates(seq) == \A j, k \in 1..Len(seq) : seq[j] = seq[k] => j = k

\* pattern occurs in data at the 0-based offset `start`.
OccursAt(pattern, data, start) ==
    /\ start >= 0
    /\ start + Len(pattern) <= Len(data)
    /\ \A k \in 1..Len(pattern) : data[start + k] = pattern[k]

OccursIn(pattern, data) == \E start \in 0..Len(data) : OccursAt(pattern, data, start)

\* Every position (seq_id, start, end) at which pattern occurs in the
\* inserted sequences.
Occurrences(pattern) ==
    UNION {{<<i, start, start + Len(pattern)>> :
               start \in {st \in 0..Len(Data(i)) : OccursAt(pattern, Data(i), st)}} :
           i \in Ids}

\* The last query was `operation` and it returned.
Returned(operation) == call[1] = operation /\ call[3].panic = ""

\* C1 (false-positive freedom of find): every triple (i, s, e) yielded by
\* find(p) has 0 <= s <= e <= len(sequence_by_id(i)) and
\* sequence_by_id(i)[s..e] = p; and contains(p) is true only if p is a
\* substring of an inserted sequence.
FindIsSound ==
    /\ Returned("find") =>
           \A k \in 1..Len(call[3].ret) :
               LET t == call[3].ret[k]
               IN  /\ t[1] \in Ids
                   /\ 0 <= t[2] /\ t[2] <= t[3]
                   /\ t[3] <= Len(sequence_by_id(Builder, t[1]).ret)
                   /\ Slice(sequence_by_id(Builder, t[1]).ret, t[2], t[3]) = call[2]
    /\ (Returned("contains") /\ call[3].ret) =>
           \E i \in Ids : OccursIn(call[2], Data(i))

\* A find that yielded several triples for a pattern of several bytes.
FindIsSoundWitness ==
    /\ Returned("find")
    /\ Len(call[2]) >= 2
    /\ Len(call[3].ret) >= 2

\* C2 (suffix coverage): after build(), for every inserted sequence i and
\* every non-empty suffix w of its payload, contains(w) is true and find(w)
\* yields (i, len(payload_i) - len(w), len(payload_i)).
SuffixCoverage ==
    /\ (pc = "tree" /\ call = NoCall) =>
           \A i \in Ids : \A k \in 0..(Len(Data(i)) - 1) :
               LET w == Slice(Data(i), k, Len(Data(i)))
               IN  /\ contains(Builder, w) = Ret(TRUE)
                   /\ \A order \in HashOrders :
                          /\ find(Builder, w, order).panic = ""
                          /\ <<i, k, Len(Data(i))>> \in Range(find(Builder, w, order).ret)
    /\ Returned("find") =>
           \A i \in Ids : \A k \in 0..(Len(Data(i)) - 1) :
               call[2] = Slice(Data(i), k, Len(Data(i)))
                   => <<i, k, Len(Data(i))>> \in Range(call[3].ret)
    /\ Returned("contains") =>
           \A i \in Ids : \A k \in 0..(Len(Data(i)) - 1) :
               call[2] = Slice(Data(i), k, Len(Data(i))) => call[3].ret

\* find was asked a proper suffix of a sequence that is repeated in the list.
SuffixCoverageWitness ==
    /\ Returned("find")
    /\ \E i, j \in Ids :
           /\ i # j
           /\ Data(i) = Data(j)
           /\ Len(Data(i)) >= 2
           /\ call[2] = Slice(Data(i), 1, Len(Data(i)))

\* The doc test of find: on "test", find("es") yields (0, 1, 3) and then
\* nothing.
DocTestFind ==
    find(from_sequences(<<<<116, 101, 115, 116>>>>, ASCII), <<101, 115>>, <<0>>)
        = Ret(<<<<0, 1, 3>>>>)

\* C3 (count consistency): find(p) yields exactly one triple per position
\* (seq_id, start) at which p occurs in the inserted sequences, without
\* duplicates or omissions; nothing when p occurs nowhere.
CountConsistency ==
    /\ Returned("find") =>
           /\ NoDuplicates(call[3].ret)
           /\ Range(call[3].ret) = Occurrences(call[2])
    /\ passed = <<>> => DocTestFind

\* find yielded nothing for a pattern longer than every sequence, on a
\* tree that holds sequences.
CountConsistencyWitness ==
    /\ Returned("find")
    /\ call[3].ret = <<>>
    /\ Len(sequences) >= 2
    /\ \A i \in Ids : Len(Data(i)) >= 1 /\ Len(Data(i)) < Len(call[2])

\* A byte string common to all inserted sequences.
Common(str) == \A i \in Ids : OccursIn(str, Data(i))

\* The substrings of the first sequence longer than n.
LongerCandidates(n) ==
    {Slice(Data(0), st, en) : st \in 0..Len(Data(0)), en \in 0..Len(Data(0))}
        \cap UNION {[1..k -> Bytes] : k \in (n + 1)..Len(Data(0))}

\* C4 (LCS optimality): whenever the top-level longest_common_subsequence
\* returns L for a non-empty list (one sequence or several), L occurs in
\* every inserted sequence and no strictly longer byte string does.
LcsOptimality ==
    (Returned("top_level_lcs") /\ call[3].ret[1] = "Some") =>
        /\ Common(call[3].ret[2])
        /\ \A longer \in LongerCandidates(Len(call[3].ret[2])) : ~Common(longer)

\* C5 (LCS occurrences): the triples yielded by
\* SuffixTree::longest_common_subsequence all denote the same byte string,
\* each has s <= e <= len(sequence_by_id(i)), every sequence id appears,
\* and the triples are exactly the occurrences of that string.
LcsOccurrences ==
    (Returned("longest_common_subsequence") /\ call[3].ret # <<>>) =>
        LET triples == call[3].ret
            str == Slice(Data(triples[1][1]), triples[1][2], triples[1][3])
        IN  /\ \A k \in 1..Len(triples) :
                   /\ triples[k][1] \in Ids
                   /\ 0 <= triples[k][2] /\ triples[k][2] <= triples[k][3]
                   /\ triples[k][3] <= Len(sequence_by_id(Builder, triples[k][1]).ret)
                   /\ Slice(sequence_by_id(Builder, triples[k][1]).ret,
                            triples[k][2], triples[k][3]) = str
            /\ \A i \in Ids : \E k \in 1..Len(triples) : triples[k][1] = i
            /\ NoDuplicates(triples)
            /\ Range(triples) = Occurrences(str)

\* The LCS of several sequences occurs twice in one of them.
LcsOccurrencesWitness ==
    /\ Returned("longest_common_subsequence")
    /\ Len(sequences) >= 2
    /\ Len(call[3].ret) > Len(sequences)

BytesOf(data) == Range(data)

\* Some inserted sequence shares no byte with the others.
SomeSequenceApart ==
    /\ Len(sequences) >= 2
    /\ \E i \in Ids : \A j \in Ids \ {i} : BytesOf(Data(i)) \cap BytesOf(Data(j)) = {}

\* C6 (no common substring): when an inserted sequence shares no byte with
\* the others, SuffixTree::longest_common_subsequence yields nothing and the
\* top-level function returns None, as a normal result.
NoCommonSubstring ==
    /\ (call[1] = "longest_common_subsequence" /\ SomeSequenceApart) =>
           /\ call[3] = Ret(<<>>)
           /\ pc = "tree"
    /\ (call[1] = "top_level_lcs" /\ SomeSequenceApart) =>
           /\ call[3] = Ret(<<"None">>)
           /\ pc = "tree"

\* The top-level function returned None for two non-empty sequences, one of
\* which repeats a byte (so the tree has an internal node).
NoCommonSubstringWitness ==
    /\ call[1] = "top_level_lcs"
    /\ SomeSequenceApart
    /\ \A i \in Ids : Data(i) # <<>>
    /\ \E n \in 1..Len(nodes) : nodes[n].kind = "Internal"

\* C7 (default alphabet): with no alphabet supplied, add_sequence accepts
\* payloads of any bytes and contains / find return a result for every
\* non-empty pattern; no call fails because a byte is unknown.
DefaultAlphabetTotal ==
    alphabet = ASCII =>
        /\ panic = ""
        /\ (call # NoCall /\ ~(call[1] \in {"contains", "find"} /\ call[2] = <<>>))
               => call[3].panic = ""

OtherAlphabet == IF alphabet = ASCII THEN ATGC ELSE ASCII

\* C8 (alphabet independence): longest_common_subsequence(sequences,
\* Some(ATGC)) and longest_common_subsequence(sequences, None) return the
\* same value.
AlphabetIndependence ==
    Returned("top_level_lcs") =>
        \A order \in HashOrders :
            TopLevelLcs(from_sequences(passed, OtherAlphabet), order) = call[3]

\* C8 as amended: both calls return None, or both return a byte string and
\* the two byte strings have the same length.
AlphabetIndependentLength ==
    Returned("top_level_lcs") =>
        \A order \in HashOrders :
            LET other == TopLevelLcs(from_sequences(passed, OtherAlphabet), order)
            IN  /\ other.panic = ""
                /\ other.ret[1] = call[3].ret[1]
                /\ other.ret[1] = "Some" => Len(other.ret[2]) = Len(call[3].ret[2])

\* The two alphabets return different byte strings of the same length for a
\* list of several sequences.
AlphabetIndependentLengthWitness ==
    /\ Returned("top_level_lcs")
    /\ Len(sequences) >= 2
    /\ call[3].ret[1] = "Some"
    /\ TopLevelLcs(from_sequences(passed, OtherAlphabet), [k \in 1..Len(sequences) |-> k - 1])
           # call[3]

\* C9 (capacity rejection): a builder accepts up to 128 sequences; the
\* 129th call of add_sequence is rejected before any state is changed: the
\* sequences, the nodes with their child maps, and active_node, active_edge,
\* position and remaining are as before the call.
CapacityRejection ==
    [][(pc = "builder" /\ passed' # passed) =>
          IF Len(sequences) < MaxSequences
          THEN /\ pc' = "add_sequence"
               /\ panic' = ""
               /\ sequences' = Append(sequences, Sequence_new(Len(sequences), passed'[Len(passed')]))
          ELSE /\ pc' = "panicked"
               /\ panic' = "this suffix tree contains more than 128 sequences"
               /\ Len(passed') = MaxSequences + 1
               /\ sequences' = sequences
               /\ nodes' = nodes
               /\ active_node' = active_node
               /\ active_edge' = active_edge
               /\ position' = position
               /\ remaining' = remaining]_vars

\* The 129th call was rejected, after a sequence that left the active-point
\* fields away from their reset values.
CapacityRejectionWitness ==
    /\ pc = "panicked"
    /\ panic = "this suffix tree contains more than 128 sequences"
    /\ Len(sequences) = MaxSequences
    /\ Len(passed) = MaxSequences + 1
    /\ position > 0
    /\ Len(Data(MaxSequences - 1)) >= 1

\* C10 (sequence ids): the k-th call of add_sequence assigns id k, and
\* sequence_by_id(k) returns the payload passed in the k-th call, whatever
\* was inserted later.
SequenceIds ==
    /\ Len(sequences) <= Len(passed)
    /\ \A k \in 1..Len(sequences) :
           /\ sequences[k].id = k - 1
           /\ sequences[k].data = passed[k]
    /\ Returned("sequence_by_id") => call[3].ret = passed[call[2] + 1]

\* sequence_by_id returned the first of several payloads, a non-empty one.
SequenceIdsWitness ==
    /\ Returned("sequence_by_id")
    /\ call[2] = 0
    /\ Len(call[3].ret) >= 1
    /\ Len(sequences) >= 3

\* ------------------------------------------------------------ alphabets
\* The byte values the symbol lists of SpecAlphabet are made of: the ends
\* of the u8 range, the last index of `ranks`, and a letter.
AlphabetBytes == {0, 71, 254, 255}

\* The value of `alphabet` before Alphabet::new returned one.
NoAlphabet == [size |-> 0, symbols |-> <<>>]

\* No alphabet, builder or tree exists yet; pc = "start".
InitAlphabet ==
    /\ alphabet = NoAlphabet
    /\ sequences = <<>>
    /\ nodes = <<>>
    /\ active_node = 0
    /\ active_edge = <<>>
    /\ position = 0
    /\ remaining = 0
    /\ previously_created_node = None
    /\ panic = ""
    /\ pc = "start"
    /\ steps_left = 0
    /\ next_symbol = NoSymbol
    /\ iterations_left = 0
    /\ call = NoCall
    /\ passed = <<>>

\* Alphabet::new(symbols): pc = "alphabet" when it returned.
AlphabetNew ==
    /\ pc = "start"
    /\ \E symbols \in SeqsUpTo(AlphabetBytes, MaxAlphabet) :
           LET why == AlphabetNewPanic(symbols, 1)
           IN  /\ call' = <<"Alphabet::new", symbols, [panic |-> why, ret |-> <<>>]>>
               /\ panic' = why
               /\ pc' = IF why # "" THEN "panicked" ELSE "alphabet"
               /\ alphabet' = IF why # "" THEN alphabet ELSE Alphabet_new(symbols)
    /\ UNCHANGED <<sequences, nodes, active_node, active_edge, position, remaining,
                   previously_created_node, steps_left, next_symbol, iterations_left, passed>>

\* A call on the constructed alphabet, which is borrowed immutably.
AlphabetQuery(operation, argument, outcome) ==
    /\ pc = "alphabet"
    /\ call' = <<operation, argument, outcome>>
    /\ pc' = IF outcome.panic # "" THEN "panicked" ELSE pc
    /\ panic' = outcome.panic
    /\ UNCHANGED <<alphabet, sequences, nodes, active_node, active_edge, position, remaining,
                   previously_created_node, steps_left, next_symbol, iterations_left, passed>>

RankOfSymbol ==
    \E byte \in AlphabetBytes :
        AlphabetQuery("rank_of_symbol", byte,
                      IF RankPanics(alphabet, byte) THEN QueryPanic("rank_of_symbol")
                      ELSE Ret(rank_of_symbol(alphabet, byte)))

SymbolOfRank ==
    \E rank \in 0..MaxAlphabet :
        AlphabetQuery("symbol_of_rank", rank,
                      IF SymbolOfRankPanics(alphabet, rank) THEN QueryPanic("symbol_of_rank")
                      ELSE Ret(symbol_of_rank(alphabet, rank)))

NextAlphabet ==
    \/ AlphabetNew
    \/ RankOfSymbol
    \/ SymbolOfRank

SpecAlphabet == InitAlphabet /\ [][NextAlphabet]_vars

\* C11 (alphabet construction): for any list of byte values of [0, 256),
\* Alphabet::new succeeds if the values are pairwise distinct and is rejected
\* with the duplicate-symbol error if some value repeats; on success
\* rank_of_symbol maps each alphabet byte b to a rank in [0, size) and
\* symbol_of_rank(rank_of_symbol(b)) = b.
AlphabetConstruction ==
    /\ call[1] = "Alphabet::new" =>
           IF NoDuplicates(call[2])
           THEN /\ call[3].panic = ""
                /\ pc = "alphabet"
                /\ alphabet.symbols = call[2]
                /\ \A b \in Range(call[2]) :
                       /\ ~RankPanics(alphabet, b)
                       /\ rank_of_symbol(alphabet, b) \in 0..(alphabet.size - 1)
                       /\ ~SymbolOfRankPanics(alphabet, rank_of_symbol(alphabet, b))
                       /\ symbol_of_rank(alphabet, rank_of_symbol(alphabet, b)) = b
           ELSE call[3].panic = "symbol appears twice in alphabet"
    /\ (call[1] = "rank_of_symbol" /\ call[2] \in Range(alphabet.symbols)) =>
           /\ call[3].panic = ""
           /\ call[3].ret \in 0..(alphabet.size - 1)
           /\ symbol_of_rank(alphabet, call[3].ret) = call[2]

\* ------------------------------------------------------------ printed trees
\* The lines of a printed tree: the string split at its newlines.
RECURSIVE SplitLines(_, _, _)
SplitLines(str, k, line) ==
    IF k > Len(str) THEN <<line>>
    ELSE IF str[k] = Newline THEN <<line>> \o SplitLines(str, k + 1, <<>>)
    ELSE SplitLines(str, k + 1, Append(line, str[k]))
Lines(str) == IF str = <<>> THEN <<>> ELSE SplitLines(str, 1, <<>>)

\* The elements of a set of integers in ascending order.
RECURSIVE Ascending(_)
Ascending(S) ==
    IF S = {} THEN <<>>
    ELSE LET least == CHOOSE x \in S : \A y \in S : x <= y
         IN  <<least>> \o Ascending(S \ {least})

\* Reading a printed node whose children hang at column c of lines lo..hi:
\* the lines on which a child starts, the last line of the child that starts
\* on line l, the column of the child's own connector (0 for a leaf) and
\* the child's text.
ChildLines(lines, lo, hi, c) ==
    {l \in lo..hi : Len(lines[l]) >= c /\ lines[l][c] \in {BoxFirst, BoxNext, BoxLast}}
ChildLastLine(lines, lo, hi, c, l) ==
    LET later == {m \in ChildLines(lines, lo, hi, c) : m > l}
    IN  IF later = {} THEN hi ELSE (CHOOSE m \in later : \A n \in later : m <= n) - 1
ChildColumn(line, c) ==
    LET boxes == {q \in (c + 1)..Len(line) : line[q] = BoxFirst}
    IN  IF boxes = {} THEN 0 ELSE CHOOSE q \in boxes : \A r \in boxes : q <= r
ChildText(line, c) ==
    IF ChildColumn(line, c) = 0 THEN SubSeq(line, c + 1, Len(line))
    ELSE SubSeq(line, c + 1, ChildColumn(line, c) - 1)

\* The number a string of digits denotes.
RECURSIVE Number(_, _)
Number(digits, k) ==
    IF k = 0 THEN 0 ELSE 10 * Number(digits, k - 1) + (digits[k] - 48)

\* The first symbol of text t comes before the first symbol of text u: two
\* bytes compare by value, two terminals by sequence id.
FirstSymbolBefore(t, u) ==
    IF t[1] = Dollar /\ u[1] = Dollar
    THEN Number(SubSeq(t, 2, Len(t)), Len(t) - 1) < Number(SubSeq(u, 2, Len(u)), Len(u) - 1)
    ELSE IF t[1] # Dollar /\ u[1] # Dollar THEN t[1] < u[1]
    ELSE TRUE

\* In the printed subtree, every node's children are in the order of their
\* first symbols.
RECURSIVE PrintedBySymbol(_, _, _, _)
PrintedBySymbol(lines, lo, hi, c) ==
    LET starts == ChildLines(lines, lo, hi, c)
    IN  /\ \A l, m \in starts :
               l < m => FirstSymbolBefore(ChildText(lines[l], c), ChildText(lines[m], c))
        /\ \A l \in starts :
               ChildColumn(lines[l], c) # 0 =>
                   PrintedBySymbol(lines, l, ChildLastLine(lines, lo, hi, c, l),
                                   ChildColumn(lines[l], c))

\* The printed subtree is that of `node`, every node's children in the
\* ascending order of their node ids.
RECURSIVE PrintedByNodeId(_, _, _, _, _)
PrintedByNodeId(lines, lo, hi, c, node) ==
    LET starts == Ascending(ChildLines(lines, lo, hi, c))
        children == Ascending(ChildSet(Builder, node))
    IN  /\ Len(starts) = Len(children)
        /\ children # <<>> => starts[1] = lo
        /\ \A k \in 1..Len(children) :
               LET l == starts[k]
                   column == ChildColumn(lines[l], c)
                   last == ChildLastLine(lines, lo, hi, c, l)
               IN  /\ ChildText(lines[l], c) = NodeText(Builder, children[k])
                   /\ IF Node_is_leaf(N(Builder, children[k]))
                      THEN column = 0 /\ last = l
                      ELSE column # 0 /\ PrintedByNodeId(lines, l, last, column, children[k])

\* The golden output of the test on ["test", "rest"].
GoldenLines ==
    << <<BoxFirst, 116, BoxFirst, 101, 115, 116, Dollar, 48>>,
       <<BoxBar, Space, BoxNext, Dollar, 48>>,
       <<BoxBar, Space, BoxLast, Dollar, 49>>,
       <<BoxNext, Dollar, 48>>,
       <<BoxNext, 114, 101, 115, 116, Dollar, 49>>,
       <<BoxNext, 101, 115, 116, BoxFirst, Dollar, 48>>,
       <<BoxBar, Space, Space, Space, BoxLast, Dollar, 49>>,
       <<BoxNext, 115, 116, BoxFirst, Dollar, 48>>,
       <<BoxBar, Space, Space, BoxLast, Dollar, 49>>,
       <<BoxLast, Dollar, 49>> >>
GoldenTest ==
    \A order \in {<<0, 1>>, <<1, 0>>} :
        pretty_print(from_sequences(<<<<116, 101, 115, 116>>, <<114, 101, 115, 116>>>>, ASCII),
                     order) = Ret(Join(GoldenLines, 1))

\* C12 (pretty-print child order), as stated: in the output of pretty_print
\* the children of every node are printed in sorted order of the first
\* symbol of their edge labels.
PrettyPrintBySymbol ==
    Returned("pretty_print") =>
        PrintedBySymbol(Lines(call[3].ret), 1, Len(Lines(call[3].ret)), 1)

\* C12 as amended: the children of every node are printed in ascending
\* order of their node ids, whatever the iteration order of the hash maps,
\* and the golden output for ["test", "rest"] is an instance of that order.
PrettyPrintByNodeId ==
    /\ Returned("pretty_print") =>
           PrintedByNodeId(Lines(call[3].ret), 1, Len(Lines(call[3].ret)), 1, 0)
    /\ (pc = "tree" /\ call = NoCall) =>
           \A order \in HashOrders :
               pretty_print(Builder, order) = pretty_print(Builder, <<>> \o Ascending(Ids))
    /\ passed = <<>> => GoldenTest

\* A tree of several sequences was printed whose node-id order is not the
\* order of the first symbols.
PrettyPrintByNodeIdWitness ==
    /\ Returned("pretty_print")
    /\ Len(sequences) >= 2
    /\ ~PrintedBySymbol(Lines(call[3].ret), 1, Len(Lines(call[3].ret)), 1)
    /\ \E n \in 2..Len(nodes) :
           nodes[n].kind = "Internal" /\ Cardinality(DOMAIN nodes[n].children.terminals) >= 2

\* ------------------------------------------------------------ paths
\* The symbols of a sequence at the indices lo..(hi - 1); the index
\* len(payload) is the sequence's terminal.
RECURSIVE Symbols(_, _, _)
Symbols(sequence, lo, hi) ==
    IF lo >= hi THEN <<>>
    ELSE <<Sequence_at(sequence, lo)>> \o Symbols(sequence, lo + 1, hi)

\* Whether the sequence being inserted is still incomplete.
Inserting == pc \in {"add_sequence", "insert_next_symbol"}

\* The label of the edge into `node` in builder b: start..end for an
\* internal node; for a leaf, from start to the end of what was inserted of
\* its sequence (the terminal included once the sequence is complete, the
\* first `position` symbols of the sequence being inserted).
EdgeLabel(b, inserting, node) ==
    LET n == N(b, node)
        sequence == SeqOf(b, n.seq_id)
    IN  IF n.kind = "Internal" THEN Symbols(sequence, n.start, n.end)
        ELSE IF inserting /\ n.seq_id = Len(b.sequences) - 1
        THEN Symbols(sequence, n.start, b.position)
        ELSE Symbols(sequence, n.start, Sequence_len(sequence))

IsPrefix(u, w) == Len(u) <= Len(w) /\ SubSeq(w, 1, Len(u)) = u

\* Some path from `node` downwards spells w (it may end inside an edge).
RECURSIVE Spells(_, _, _, _)
Spells(b, inserting, node, w) ==
    \/ w = <<>>
    \/ /\ N(b, node).kind # "Leaf"
       /\ \E child \in ChildSet(b, node) :
              LET label == EdgeLabel(b, inserting, child)
              IN  \/ IsPrefix(w, label)
                  \/ /\ label # <<>>
                     /\ IsPrefix(label, w)
                     /\ Spells(b, inserting, child, SubSeq(w, Len(label) + 1, Len(w)))

\* The pairs <<leaf, label of the path from the root to the leaf>> below
\* `node`, whose own path is `prefix`.
RECURSIVE LeafPaths(_, _, _)
LeafPaths(b, node, prefix) ==
    IF N(b, node).kind = "Leaf" THEN {<<node, prefix>>}
    ELSE UNION {LeafPaths(b, child, prefix \o EdgeLabel(b, FALSE, child)) :
                    child \in ChildSet(b, node)}

\* The suffix of sequence i from index k on, its terminal included.
Suffix(i, k) == Symbols(sequences[i + 1], k, Sequence_len(sequences[i + 1]))

Leaves == {n \in 0..(Len(nodes) - 1) : nodes[n + 1].kind = "Leaf"}

\* C14 (one leaf per suffix): after every completed add_sequence call, for
\* each inserted sequence i and each k in [0, len(payload_i)] exactly one
\* leaf of sequence i has a root path that spells payload_i[k..] and the
\* terminal of i, and its start minus the string depth of its parent is k;
\* the number of leaves is the sum of len(payload_i) + 1.
OneLeafPerSuffix ==
    (pc \in {"builder", "tree"} /\ call = NoCall) =>
        LET paths == LeafPaths(Builder, 0, <<>>)
        IN  /\ \A i \in Ids : \A k \in 0..Len(Data(i)) :
                   LET found == {path \in paths :
                                    /\ nodes[path[1] + 1].seq_id = i
                                    /\ path[2] = Suffix(i, k)}
                   IN  /\ Cardinality(found) = 1
                       /\ \A path \in found :
                              LET leaf == path[1]
                                  parent_depth ==
                                      Len(path[2]) - Len(EdgeLabel(Builder, FALSE, leaf))
                              IN  nodes[leaf + 1].start - parent_depth = k
            /\ Cardinality(paths) = StreamLen(sequences)
            /\ Cardinality(Leaves) = StreamLen(sequences)

\* A builder between two calls that holds the same sequence twice, and a
\* node that was split off an edge.
OneLeafPerSuffixWitness ==
    /\ pc = "builder"
    /\ \E i, j \in Ids : i < j /\ Data(i) = Data(j) /\ Len(Data(i)) >= 2
    /\ \E n \in 1..Len(nodes) : nodes[n].kind = "Internal"

\* ------------------------------------------------------------ the implicit tree
\* The labels of the paths from the root to the leaves below `node`, whose
\* own path is `prefix`; the open leaves of the sequence being inserted end
\* where the inserted prefix ends.
RECURSIVE RootPaths(_, _, _, _)
RootPaths(b, inserting, node, prefix) ==
    IF N(b, node).kind = "Leaf" THEN {prefix}
    ELSE UNION {RootPaths(b, inserting, child, prefix \o EdgeLabel(b, inserting, child)) :
                    child \in ChildSet(b, node)}

\* Every string spelled by a path that starts at the root.
Spelled(b, inserting) ==
    UNION {{SubSeq(path, 1, k) : k \in 0..Len(path)} :
               path \in RootPaths(b, inserting, 0, <<>>)}

\* What has been inserted of sequence i: all of it, terminal included, or
\* the first `position` symbols of the sequence being inserted.
Inserted(i) ==
    IF Inserting /\ i = Len(sequences) - 1
    THEN Symbols(sequences[i + 1], 0, position)
    ELSE Symbols(sequences[i + 1], 0, Sequence_len(sequences[i + 1]))

Substrings(w) == {SubSeq(w, lo, hi) : lo \in 1..(Len(w) + 1), hi \in 0..Len(w)}

\* What the strings spelled from the root depend on.
TreeVars == <<sequences, nodes, position, pc>>

\* Every substring of what has been inserted is spelled from the root.
ImplicitTree ==
    \A i \in Ids : \A w \in Substrings(Inserted(i)) : Spells(Builder, Inserting, 0, w)

\* C15 (online invariant): in every state of the construction, between two
\* steps and inside a step alike, every substring of the inserted prefix of
\* the current sequence and every substring of every completed sequence,
\* its terminal included, is spelled by a path from the root; and no
\* transition destroys a path: what is spelled before it is spelled after.
\* (A query leaves the tree as it is: the states with a pending query and
\* the transitions that leave TreeVars alone need no second look.)
OnlineInvariant ==
    /\ []((panic = "" /\ call = NoCall) => ImplicitTree)
    /\ [][(panic' = "" /\ TreeVars' # TreeVars) =>
               Spelled(Builder, Inserting) \subseteq Spelled(Builder', Inserting')]_vars

\* Between two steps of the second sequence, with suffixes still implicit
\* (remaining > 0) and a node split off an edge.
OnlineInvariantWitness ==
    /\ pc = "add_sequence"
    /\ panic = ""
    /\ Len(sequences) >= 2
    /\ position >= 2
    /\ steps_left > 0
    /\ remaining > 0
    /\ \E n \in 1..Len(nodes) : nodes[n].kind = "Internal"

\* ------------------------------------------------------------ the end of a sequence
\* C16 (end-of-sequence state): the step after which add_sequence returns is
\* the one that inserted the terminal of the sequence, and it leaves
\* remaining = 0; so remaining = 0 in every builder between two calls and in
\* every tree, whatever the payload and the sequences before it.
EndOfSequence ==
    /\ [](pc \in {"builder", "tree"} => remaining = 0)
    /\ [][(pc = "insert_next_symbol" /\ pc' = "builder") =>
               /\ next_symbol = Terminal(Len(sequences) - 1)
               /\ position' = Sequence_len(current_sequence(Builder))
               /\ remaining' = 0]_vars

\* add_sequence has returned from a payload that repeats an earlier one, so
\* that its last step began with every suffix of the payload still implicit.
EndOfSequenceWitness ==
    /\ pc = "builder"
    /\ remaining = 0
    /\ Len(sequences) >= 2
    /\ position = Sequence_len(current_sequence(Builder))
    /\ Len(passed[Len(passed)]) >= 2
    /\ \E i \in 1..(Len(passed) - 1) : passed[i] = passed[Len(passed)]

\* ------------------------------------------------------------ suffix links
\* The pairs <<n, label of the path from the root to n>> for the root and
\* the internal nodes at or below `node`, whose own path is `prefix`.
RECURSIVE InnerPaths(_, _, _)
InnerPaths(b, node, prefix) ==
    IF N(b, node).kind = "Leaf" THEN {}
    ELSE {<<node, prefix>>} \cup
         UNION {InnerPaths(b, child, prefix \o EdgeLabel(b, FALSE, child)) :
                    child \in ChildSet(b, node)}

Linked == {n \in 0..(Len(nodes) - 1) : nodes[n + 1].suffix_link # None}

\* C17 (suffix links): in every state, a node whose suffix link is set is
\* an internal node, the link leads to an internal node or to the root, and
\* when the root path of the node spells x alpha, x one symbol, the root
\* path of the target spells alpha: the target is one symbol less deep.
SuffixLinks ==
    panic = "" =>
        LET paths == InnerPaths(Builder, 0, <<>>)
        IN  \A n \in Linked :
                LET target == nodes[n + 1].suffix_link
                IN  /\ nodes[n + 1].kind = "Internal"
                    /\ target \in 0..(Len(nodes) - 1)
                    /\ nodes[target + 1].kind \in {"Internal", "Root"}
                    /\ \E from \in paths, to \in paths :
                           /\ from[1] = n
                           /\ to[1] = target
                           /\ Len(from[2]) >= 1
                           /\ to[2] = SubSeq(from[2], 2, Len(from[2]))
                           /\ Len(to[2]) = Len(from[2]) - 1

\* Two suffix links are set, each from an internal node to another one.
SuffixLinksWitness ==
    /\ panic = ""
    /\ Cardinality(Linked) >= 2
    /\ \A n \in Linked : nodes[nodes[n + 1].suffix_link + 1].kind = "Internal"

\* ------------------------------------------------------------ child maps
\* The symbols under which the child map of `node` holds a child.
Registered(b, node) ==
    LET children == N(b, node).children
    IN  {Terminal(seq_id) : seq_id \in DOMAIN children.terminals} \cup
        {Regular(symbol_of_rank(b.alphabet, k - 1)) :
             k \in {j \in 1..Len(children.regular) : children.regular[j] # None}}

\* The first symbol of the label of the edge into `node`: the symbol of its
\* sequence at its start.
FirstSymbol(b, node) == Sequence_at(SeqOf(b, N(b, node).seq_id), N(b, node).start)

HasFirstSymbol(b, node) ==
    LET n == N(b, node)
    IN  /\ n.seq_id \in 0..(Len(b.sequences) - 1)
        /\ ~AtPanics(SeqOf(b, n.seq_id), n.start)
        /\ n.kind = "Internal" => n.start < n.end

\* C18 (child-map consistency): in every state and at every node that is
\* not a leaf, the child registered under symbol x is another node whose
\* incoming edge has a label that starts with x, also when a split has just
\* moved the start of the child; so the edges that leave one node start
\* with pairwise distinct symbols and no child is registered twice.  (A
\* query leaves the tree as it is, so the states without a pending query
\* hold every tree there is.)
ChildMapConsistency ==
    (panic = "" /\ call = NoCall) =>
        \A node \in 0..(Len(nodes) - 1) :
            nodes[node + 1].kind # "Leaf" =>
                /\ \A x \in Registered(Builder, node) :
                       LET child == get_child(Builder, node, x)
                       IN  /\ child \in 1..(Len(nodes) - 1)
                           /\ HasFirstSymbol(Builder, child)
                           /\ FirstSymbol(Builder, child) = x
                /\ Cardinality(ChildSet(Builder, node)) =
                       Cardinality(Registered(Builder, node))
                /\ \A c, d \in ChildSet(Builder, node) :
                       c # d => FirstSymbol(Builder, c) # FirstSymbol(Builder, d)

\* A split has just moved the start of a child: inside a step, the node
\* created last is an internal node whose child by a regular symbol is an
\* older node that no longer starts where the internal node starts.
ChildMapConsistencyWitness ==
    /\ pc = "insert_next_symbol"
    /\ panic = ""
    /\ previously_created_node # None
    /\ \E x \in Registered(Builder, previously_created_node) :
           LET child == get_child(Builder, previously_created_node, x)
           IN  /\ IsRegular(x)
               /\ child < previously_created_node
               /\ nodes[child + 1].start = nodes[previously_created_node + 1].end
               /\ nodes[child + 1].start > nodes[previously_created_node + 1].start

\* ------------------------------------------------------------ sequence-id sets
Internals == {n \in 0..(Len(nodes) - 1) : nodes[n + 1].kind = "Internal"}

\* The sequence ids of the leaves in the subtree of `node`.
LeafIdsBelow(node) ==
    {nodes[path[1] + 1].seq_id : path \in LeafPaths(Builder, node, <<>>)}

\* C19 (sequence-id bitsets): in every tree returned by build(), every
\* internal node has its bitset populated (Some), and bit i of it is set
\* if and only if the subtree of the node holds a leaf of sequence id i:
\* the set of the bits that are set is the set of those sequence ids.
SequenceIdSets ==
    pc = "tree" =>
        \A n \in Internals :
            /\ Len(nodes[n + 1].sequence_id_set) = 1
            /\ nodes[n + 1].sequence_id_set[1] \subseteq 0..(MaxSequences - 1)
            /\ nodes[n + 1].sequence_id_set[1] = LeafIdsBelow(n)

\* A built tree of two sequences or more with an internal node below
\* another internal node, and an internal node that lacks the bit of some
\* sequence.
SequenceIdSetsWitness ==
    /\ pc = "tree"
    /\ Len(sequences) >= 2
    /\ \E n, m \in Internals : m \in ChildSet(Builder, n)
    /\ \E n \in Internals : \E i \in Ids : i \notin nodes[n + 1].sequence_id_set[1]

\* ------------------------------------------------------------ the order inside a step
\* What the active point of b spells from the root: the root path of the
\* active node and, with an active edge <<symbol, length>>, the first
\* `length` symbols of the edge the active node has under `symbol`.
ActivePaths(b) ==
    {IF Len(b.active_edge) = 0 THEN path[2]
     ELSE path[2] \o SubSeq(EdgeLabel(b, FALSE, active_edge_node(b)), 1, b.active_edge[2]) :
        path \in {q \in InnerPaths(b, 0, <<>>) : q[1] = b.active_node}}

\* An iteration of the loop of insert_next_symbol that inserted a node.
Extended == pc = "insert_next_symbol" /\ Len(nodes') > Len(nodes) /\ panic' = ""

\* C20 as stated (order inside a step): after an extension `remaining` is
\* decremented first and the active point is updated afterwards, so that
\* the rule's position + 2 - remaining and remaining - 2 take the
\* decremented value: the updated active point spells the symbols of the
\* current sequence from position + 2 - remaining' up to position.
DecrementBeforeUpdate ==
    [][Extended =>
           /\ remaining' = remaining - 1
           /\ ActivePaths(Builder') =
                  {Symbols(current_sequence(Builder), position + 2 - remaining', position)}]_vars

\* C20 as amended: after an extension the active point is updated first
\* and `remaining` is decremented afterwards, so that the rule's
\* position + 2 - remaining and remaining - 2 take the value `remaining`
\* had during the extension: the updated active point spells the symbols
\* of the current sequence from position + 2 - remaining up to position,
\* remaining - 2 of them when remaining >= 2.
UpdateBeforeDecrement ==
    [][Extended =>
           /\ remaining' = remaining - 1
           /\ ActivePaths(Builder') =
                  {Symbols(current_sequence(Builder), position + 2 - remaining, position)}
           /\ remaining >= 2 =>
                  \A w \in ActivePaths(Builder') : Len(w) = remaining - 2]_vars

\* The loop goes on after an extension that split an edge with remaining
\* at 3 or more: two suffixes or more are still to be extended and the
\* updated active point lies inside an edge.
UpdateBeforeDecrementWitness ==
    /\ pc = "insert_next_symbol"
    /\ panic = ""
    /\ previously_created_node # None
    /\ remaining >= 2
    /\ Len(active_edge) # 0

\* ------------------------------------------------------------ the length of a leaf edge
\* The active edge leads to a leaf, so that normalize_active_point takes the
\* leaf arm of active_edge_lenght.
ActiveEdgeIsLeaf ==
    /\ Inserting
    /\ panic = ""
    /\ ~ActiveEdgeNodePanics(Builder)
    /\ N(Builder, active_edge_node(Builder)).kind = "Leaf"

\* C21 (effective leaf length): the length active_edge_lenght gives for a
\* leaf edge is (payload_length + 1) - leaf.start of the leaf's sequence,
\* the same whether the leaf belongs to the sequence being inserted or to
\* a completed one.
EffectiveLeafLength ==
    ActiveEdgeIsLeaf =>
        LET leaf == N(Builder, active_edge_node(Builder))
        IN  active_edge_lenght(Builder) = (Len(Data(leaf.seq_id)) + 1) - leaf.start

\* ------------------------------------------------------------ the show-stopper
\* The active point already has a transition on next_symbol: a child of
\* the active node under it, or next_symbol as the symbol that follows the
\* active length on the active edge.
HasTransition ==
    /\ pc = "insert_next_symbol"
    /\ iterations_left > 0
    /\ panic = ""
    /\ IF Len(active_edge) = 0
       THEN /\ ~GetChildPanics(Builder, active_node, next_symbol)
            /\ get_child(Builder, active_node, next_symbol) # None
       ELSE /\ ~ActiveEdgeNodePanics(Builder)
            /\ LET edge_node == N(Builder, active_edge_node(Builder))
                   split_position == edge_node.start + active_edge[2]
               IN  /\ ~AtPanics(SeqOf(Builder, edge_node.seq_id), split_position)
                   /\ Sequence_at(SeqOf(Builder, edge_node.seq_id), split_position) = next_symbol

\* C22 (show-stopper): when the active point already has a transition on
\* next_symbol, the iteration creates no node, changes no field of a node
\* and no child map, and does not decrement remaining; it advances the
\* active point by one symbol (active_edge.length + 1, or (next_symbol, 1)
\* if absent) and normalizes it, ends the loop and increments position.
ShowStopper ==
    [][HasTransition =>
           /\ nodes' = nodes
           /\ sequences' = sequences
           /\ remaining' = remaining
           /\ panic' = ""
           /\ position' = position + 1
           /\ pc' \in {"add_sequence", "builder"}
           /\ iterations_left' = 0
           /\ LET advanced ==
                      IF Len(active_edge) # 0
                      THEN <<active_edge[1], active_edge[2] + 1>>
                      ELSE <<next_symbol, 1>>
                  normalized == normalize_active_point([Builder EXCEPT !.active_edge = advanced])
              IN  /\ active_node' = normalized.active_node
                  /\ active_edge' = normalized.active_edge
           /\ ActivePaths(Builder') = {path \o <<next_symbol>> : path \in ActivePaths(Builder)}]_vars

\* A step has ended on a show-stopper (remaining is still positive) after
\* an extension of the same step had split an edge.
ShowStopperWitness ==
    /\ pc = "add_sequence"
    /\ panic = ""
    /\ remaining >= 1
    /\ position >= 1
    /\ previously_created_node # None

\* ------------------------------------------------------------ the LCS tie-break
\* The internal nodes at or below `node` in the order in which the
\* recursion of longest_common_subsequence meets them: a node, then the
\* subtrees of its children in child-iteration order.
RECURSIVE ChildrenInOrder(_, _, _, _)
RECURSIVE InOrder(_, _, _)
ChildrenInOrder(b, children, k, order) ==
    IF k > Len(children) THEN <<>>
    ELSE InOrder(b, children[k], order) \o ChildrenInOrder(b, children, k + 1, order)

InOrder(b, node, order) ==
    IF N(b, node).kind = "Leaf" THEN <<>>
    ELSE (IF N(b, node).kind = "Internal" THEN <<node>> ELSE <<>>) \o
         ChildrenInOrder(b, ChildMap_iter(N(b, node).children, order), 1, order)

\* The string depth of an internal node.
StringDepth(node) ==
    LET path == CHOOSE q \in InnerPaths(Builder, 0, <<>>) : q[1] = node IN Len(path[2])

\* The bytes of the root path of an internal node.
PathBytes(node) ==
    LET path == CHOOSE q \in InnerPaths(Builder, 0, <<>>) : q[1] = node
    IN  [k \in 1..Len(path[2]) |-> path[2][k][2]]

\* The complete internal nodes (every sequence has a leaf below them).
Complete == {n \in Internals : nodes[n + 1].sequence_id_set = <<Ids>>}

\* The complete internal nodes of maximal string depth.
Deepest == {n \in Complete : \A m \in Complete : StringDepth(m) <= StringDepth(n)}

\* The positions of the deepest complete nodes in the order of the recursion.
DeepestAt(order) ==
    LET met == InOrder(Builder, 0, order) IN {k \in 1..Len(met) : met[k] \in Deepest}

Min(S) == CHOOSE x \in S : \A y \in S : x <= y
Max(S) == CHOOSE x \in S : \A y \in S : y <= x

\* The byte string the yielded triples denote.
LcsString == Slice(Data(call[3].ret[1][1]), call[3].ret[1][2], call[3].ret[1][3])

\* C23 as stated (LCS tie-break): when several complete internal nodes
\* share the maximal string depth, the string that
\* longest_common_subsequence yields is that of the first of them in
\* child-iteration order.
LcsFirstFound ==
    (Returned("longest_common_subsequence") /\ call[3].ret # <<>>) =>
        \A order \in HashOrders :
            LET met == InOrder(Builder, 0, order)
            IN  LcsString = PathBytes(met[Min(DeepestAt(order))])

\* C23 as amended: when several complete internal nodes share the maximal
\* string depth, the string that longest_common_subsequence yields is that
\* of the last of them in child-iteration order (Iterator::max_by_key
\* keeps the last of the maximal elements at the root and at every level
\* of the recursion); it yields nothing exactly when no internal node is
\* complete.
LcsLastFound ==
    Returned("longest_common_subsequence") =>
        /\ call[3].ret = <<>> <=> Complete = {}
        /\ call[3].ret # <<>> =>
               \A order \in HashOrders :
                   LET met == InOrder(Builder, 0, order)
                   IN  LcsString = PathBytes(met[Max(DeepestAt(order))])

\* Two complete internal nodes or more share the maximal depth, and the
\* string yielded is not that of the first of them.
LcsLastFoundWitness ==
    /\ Returned("longest_common_subsequence")
    /\ call[3].ret # <<>>
    /\ Len(sequences) >= 2
    /\ Cardinality(Deepest) >= 2
    /\ \E order \in HashOrders :
           LcsString # PathBytes(InOrder(Builder, 0, order)[Min(DeepestAt(order))])

\* ------------------------------------------------------------ the depth of the active point
\* An extension is about to be attempted: the loop of insert_next_symbol
\* has an iteration to run.
Attempt == pc = "insert_next_symbol" /\ iterations_left > 0 /\ panic = ""

\* C24 (active-point depth): whenever an extension is attempted, the
\* active point is remaining - 1 symbols deep and spells the symbols
\* position - remaining + 1 .. position (position excluded) of the current
\* sequence; so in update_active_point `length - 1`, `remaining - 2` and
\* `position + 2 - remaining` do not underflow, the index is at most that
\* of the terminal, and update_active_point never panics.
ActivePointDepth ==
    /\ panic # "update_active_point"
    /\ Attempt =>
           /\ remaining >= 1
           /\ position - remaining + 1 >= 0
           /\ ActivePaths(Builder) =
                  {Symbols(current_sequence(Builder), position - remaining + 1, position)}
           /\ \A w \in ActivePaths(Builder) : Len(w) = remaining - 1
           /\ StringDepth(active_node) + (IF Len(active_edge) = 0 THEN 0 ELSE active_edge[2])
                  = remaining - 1
           /\ Len(active_edge) # 0 => active_edge[2] - 1 >= 0
           /\ (Len(active_edge) # 0 \/ active_node # 0) =>
                  /\ remaining - 2 >= 0
                  /\ position + 2 - remaining \in 0..Len(current_sequence(Builder).data)

\* An extension is attempted from an internal node two suffixes or more
\* before the end of the step, in the second sequence.
ActivePointDepthWitness ==
    /\ Attempt
    /\ Len(sequences) >= 2
    /\ remaining >= 3
    /\ active_node # 0

\* ------------------------------------------------------------ the active point is well formed
\* The builder is alive: between two calls or inside add_sequence.
Building == pc \in {"builder", "add_sequence", "insert_next_symbol"} /\ panic = ""

\* C25 (active-point well-formedness): in every state of a builder the
\* active node is the root or an internal node, never a leaf; an active
\* edge <<x, len>> (the states are those after normalization) names a
\* child of the active node under x and 0 < len < the length of that edge
\* (as active_edge_lenght gives it, and as the edge's whole label has it);
\* so the unwraps of active_edge_node, Node::get_child and Node::add_child
\* do not fail: a construction panics only in rank_of_symbol, on a byte
\* without rank, or on the 129th sequence.
ActivePointWellFormed ==
    /\ panic \in {"", "get_child", "add_child",
                  "this suffix tree contains more than 128 sequences"}
    /\ panic \in {"get_child", "add_child"} =>
           IsRegular(next_symbol) /\ RankPanics(alphabet, next_symbol[2])
    /\ Building =>
           /\ active_node \in 0..(Len(nodes) - 1)
           /\ nodes[active_node + 1].kind \in {"Root", "Internal"}
           /\ Len(active_edge) # 0 =>
                  /\ ~ActiveEdgeNodePanics(Builder)
                  /\ ~ActiveEdgeLenghtPanics(Builder)
                  /\ 0 < active_edge[2]
                  /\ active_edge[2] < active_edge_lenght(Builder)
                  /\ active_edge[2] < Len(EdgeLabel(Builder, FALSE, active_edge_node(Builder)))
                  /\ FirstSymbol(Builder, active_edge_node(Builder)) = active_edge[1]

\* Normalization has moved the active point down to an internal node and
\* an active edge leaves it, with suffixes of the second sequence pending.
ActivePointWellFormedWitness ==
    /\ Building
    /\ Len(sequences) >= 2
    /\ active_node # 0
    /\ Len(active_edge) # 0
    /\ remaining >= 2

\* ------------------------------------------------------------ termination
\* The loops of add_sequence and insert_next_symbol are scheduled until
\* they end: a running call keeps taking its next step (weak fairness of
\* the step of add_sequence's loop and of the iteration of
\* insert_next_symbol's loop).
NextLive ==
    \/ AddSequence
    \/ InsertNextSymbol
    \/ Extend
    \/ Build
    \/ Contains
    \/ Find
    \/ Return

\* What an iteration of the loop of insert_next_symbol (Extend, the only
\* action there is while the loop runs) does to the control state: one
\* iteration less to go, or the loop left, or a panic.
Iteration ==
    /\ pc = "insert_next_symbol"
    /\ iterations_left > 0
    /\ \/ pc' = "insert_next_symbol" /\ iterations_left' = iterations_left - 1
       \/ pc' \in {"add_sequence", "builder"} /\ iterations_left' = 0
       \/ pc' = "panicked" /\ iterations_left' = iterations_left

SpecLive ==
    /\ Init
    /\ [][NextLive]_vars
    /\ WF_vars(InsertNextSymbol)
    /\ WF_<<pc, iterations_left>>(Iteration)

\* The bytes of the label find_node reads for the edge into `node`:
\* data[start..end] for an internal node, data[start..] for a leaf.
ByteLabelLength(b, node) ==
    IF N(b, node).kind = "Internal" THEN N(b, node).end - N(b, node).start
    ELSE Len(SeqOf(b, N(b, node).seq_id).data) - N(b, node).start

\* The children find_node can follow from `node`: those under a byte.
RegularChildren(b, node) ==
    {c \in {N(b, node).children.regular[k] : k \in 1..Len(N(b, node).children.regular)} :
         c # None}

\* Every edge is at least one symbol long, and every edge under a byte at
\* least one byte: a descent of normalize_active_point takes at least one
\* off the active length, an edge followed by find_node at least one byte
\* off the pattern.
EdgesConsume ==
    (panic = "" /\ call = NoCall /\ sequences # <<>>) =>
        \A node \in 0..(Len(nodes) - 1) :
            /\ nodes[node + 1].kind = "Internal" => nodes[node + 1].end - nodes[node + 1].start >= 1
            /\ nodes[node + 1].kind = "Leaf" =>
                   Sequence_len(SeqOf(Builder, nodes[node + 1].seq_id)) - nodes[node + 1].start >= 1
            /\ nodes[node + 1].kind # "Leaf" =>
                   \A child \in RegularChildren(Builder, node) :
                       ByteLabelLength(Builder, child) >= 1

\* The counts of the two for loops: a call runs as many steps as the
\* sequence has symbols, a step at most `remaining` iterations, and each
\* iteration lowers the count of those left.
LoopVariant ==
    /\ (pc = "builder" /\ pc' = "add_sequence") =>
           steps_left' = Len(passed'[Len(passed')]) + 1
    /\ (pc = "add_sequence" /\ pc' = "insert_next_symbol") =>
           /\ steps_left' = steps_left - 1
           /\ steps_left' >= 0
           /\ iterations_left' = remaining'
    /\ (pc = "insert_next_symbol" /\ pc' = "insert_next_symbol") =>
           /\ iterations_left' = iterations_left - 1
           /\ iterations_left' >= 1

\* C26 (termination): every add_sequence call terminates: a call that has
\* begun reaches its return or a panic; each step of it runs at most
\* `remaining` iterations (the count falls with every iteration) and each
\* call as many steps as the sequence has symbols; every edge is at least
\* one symbol long, so that each descent of normalize_active_point lowers
\* the active length, and every edge find_node follows for contains or
\* find holds at least one byte of the non-empty pattern.
Termination ==
    /\ Inserting ~> (pc \in {"builder", "panicked"})
    /\ [][LoopVariant]_vars
    /\ []EdgesConsume

\* add_sequence has returned from a second payload, of three bytes or
\* more, into a tree with an internal node.
TerminationWitness ==
    /\ pc = "builder"
    /\ Len(sequences) >= 2
    /\ Len(passed[Len(passed)]) >= 3
    /\ \E n \in 1..Len(nodes) : nodes[n].kind = "Internal"

\* ------------------------------------------------------- the empty pattern
\* A contains or find call whose pattern is empty.
EmptyPatternCall ==
    /\ call # NoCall
    /\ call[1] \in {"contains", "find"}
    /\ call[2] = <<>>

\* C27 (empty pattern): contains(p) and find(p) with the empty pattern p are
\* rejected on every tree: the call aborts at the first read of a pattern
\* byte (index out of bounds) and returns neither a boolean nor a list of
\* positions; the tree is as it was before the call.
EmptyPatternRejected ==
    /\ []((pc = "tree" /\ call = NoCall) =>
             /\ contains(Builder, <<>>) = QueryPanic("index out of bounds")
             /\ \A order \in HashOrders :
                    find(Builder, <<>>, order) = QueryPanic("index out of bounds"))
    /\ [](EmptyPatternCall =>
             /\ call[3].panic = "index out of bounds"
             /\ call[3].ret = <<>>
             /\ pc = "panicked")
    /\ [][(call = NoCall /\ call' # NoCall /\ call'[1] \in {"contains", "find"}
             /\ call'[2] = <<>>) =>
              /\ pc = "tree"
              /\ builderVars' = builderVars]_vars

\* find was asked the empty pattern on a tree of several sequences that
\* has an internal node.
EmptyPatternRejectedWitness ==
    /\ EmptyPatternCall
    /\ call[1] = "find"
    /\ Len(sequences) >= 2
    /\ \E n \in 1..Len(nodes) : nodes[n].kind = "Internal"

====
